---- MODULE Spec2Model ----
(***************************************************************************)
(* Local record / photo persistence of the field-report app:               *)
(*   - the FieldReportDB object stores (locations, photos, metadata),      *)
(*   - the legacy localStorage tier and the safe record writer,            *)
(*   - the blob-URL handle caches,                                         *)
(*   - the two localStorage -> IndexedDB migration engines and the         *)
(*     MigrationLoader gate around the application content.                *)
(* Strings (record ids, photo ids, file names) are modelled by naturals:   *)
(* equal numbers are equal strings.                                        *)
(***************************************************************************)
EXTENDS Integers, Sequences, FiniteSets, TLC

VARIABLES
    locations,      \* FieldReportDB 'locations' store: record id -> Location
    photos,         \* FieldReportDB 'photos' store: key -> Blob
    metadata,       \* FieldReportDB 'metadata' store: key -> metadata row
    ls,             \* localStorage: key -> value
    psPhotos,       \* field-report-photos 'photos' store (photo-store.ts)
    psMetadata,     \* field-report-photos 'metadata' store (photo-store.ts)
    now,            \* Date.now()
    lastOp,         \* the operation that completed last and how it ended
    urlCache,       \* storage-indexeddb.ts module-level urlCache
    urlCacheRef,    \* usePhotoManagerV2 urlCacheRef.current
    liveUrls,       \* object URLs created and not yet revoked
    nextUrl,        \* names the next URL that URL.createObjectURL hands out
    urlOwner,       \* per object URL created so far: the photo id whose blob it was made from
    calls,          \* getPhotoUrl calls suspended at an await or a retry timer
    lastUrl,        \* per photo id: what the last finished getPhotoUrl returned
    lastRevoked,    \* per photo id: the URL the last revokeSingleUrl released
    lastGet,        \* the getPhotoUrl call that finished last
    session,        \* page loads so far (0: the app was never opened)
    dbUp,           \* can IndexedDB be opened during this page load
    migrationStatus,\* useMigration migrationStatus
    migrationStats, \* useMigration migrationStats
    pcB,            \* where the useMigration effect / runMigration stands
    indexMounted,   \* is the Index page (children of MigrationLoader) mounted
    pendingInit,    \* Index.initializeData runs that have not yet migrated
    pendingLoad,    \* Index.initializeData runs that have not yet loaded the records
    forced,         \* forceMigration calls during this page load
    flagAtStart,    \* was the Migration Flag set when this page load began
    lastRun,        \* the last finished migration scan: input, outcomes, result
    formData,       \* LocationForm formData
    nextId,         \* names the next id that generateId hands out
    emergency,      \* EmergencyBackupDB 'emergency_locations' store (sw.js)
    lastRecovery,   \* the last attemptDataRecovery: what the tiers held, what it returned
    pendingUpload,  \* the upload of picked files that has not finished: the form it saw, the files
    unloadEvent,    \* the beforeunload event of the form page: how far its handler and the platform got
    fieldReportDb   \* the IndexedDB database 'FieldReportDB': version, object stores, open connections

vars == << locations, photos, metadata, ls, psPhotos, psMetadata, now, lastOp,
           urlCache, urlCacheRef, liveUrls, nextUrl, urlOwner, calls, lastUrl, lastRevoked, lastGet,
           session, dbUp, migrationStatus, migrationStats, pcB, indexMounted,
           pendingInit, pendingLoad, forced, flagAtStart, lastRun,
           formData, nextId, emergency, lastRecovery, pendingUpload, unloadEvent, fieldReportDb >>

storeVars == << locations, photos, metadata >>
psVars == << psPhotos, psMetadata >>
handleVars == << urlCache, urlCacheRef, liveUrls, nextUrl, urlOwner, calls, lastUrl, lastRevoked, lastGet >>
migVars == << session, dbUp, migrationStatus, migrationStats, pcB, indexMounted,
              pendingInit, pendingLoad, forced, flagAtStart, lastRun >>
appVars == << formData, nextId, emergency, lastRecovery, pendingUpload, unloadEvent, fieldReportDb >>

----------------------------------------------------------------------------
(* Bounds of the model *)

NumRecIds == 2
NumPhotoIds == 2
NumNames == 2
NumBodies == 2
MaxTime == 2
MaxCalls == 2
MaxUrls == 3

RecIds == 1..NumRecIds
PhotoIds == 1..NumPhotoIds
\* file names: name 0 is no photo id, the others are spelled like a photo id
Names == 0..(NumNames - 1)
Bodies == 1..NumBodies
Times == 1..MaxTime

----------------------------------------------------------------------------
(* Generic helpers on keyed stores (IDBObjectStore put / delete / getAll) *)

Empty == << >>

Put(store, k, v) == [x \in (DOMAIN store) \cup {k} |-> IF x = k THEN v ELSE store[x]]

Del(store, k) == [x \in (DOMAIN store) \ {k} |-> store[x]]

DelAll(store, ks) == [x \in (DOMAIN store) \ ks |-> store[x]]

RECURSIVE KeysAscending(_)
KeysAscending(S) ==
    IF S = {} THEN << >>
    ELSE LET m == CHOOSE x \in S : \A y \in S : x <= y
         IN  << m >> \o KeysAscending(S \ {m})

\* getAll(): the values in ascending key order
GetAll(store) ==
    LET ks == KeysAscending(DOMAIN store)
    IN  [i \in 1..Len(ks) |-> store[ks[i]]]

----------------------------------------------------------------------------
(* Data model (types/location.ts) *)

Floor(fid, phs) == [id |-> fid, photos |-> phs]

Location(id, body, ts, saved, floors) ==
    [id |-> id, body |-> body, timestamp |-> ts, lastSaved |-> saved, floors |-> floors]

\* lastSaved is optional: 0 stands for a missing lastSaved (falsy either way)
NoLastSaved == 0

\* b.lastSaved || b.timestamp
SortKey(loc) == IF loc.lastSaved # NoLastSaved THEN loc.lastSaved ELSE loc.timestamp

RECURSIVE InsertDesc(_, _)
InsertDesc(sorted, loc) ==
    IF sorted = << >> THEN << loc >>
    ELSE IF SortKey(Head(sorted)) >= SortKey(loc)
         THEN << Head(sorted) >> \o InsertDesc(Tail(sorted), loc)
         ELSE << loc >> \o sorted

RECURSIVE SortByLastSaved(_)
SortByLastSaved(list) ==
    IF list = << >> THEN << >>
    ELSE InsertDesc(SortByLastSaved(SubSeq(list, 1, Len(list) - 1)), list[Len(list)])

Ids(list) == {list[i].id : i \in 1..Len(list)}

----------------------------------------------------------------------------
(* Blob Store: storage-indexeddb.ts *)

Outcomes == {"ok", "QuotaExceeded", "StorageUnavailable"}

\* op: the operation, key: the id it was given, out: how it ended for its caller,
\* primary: how its write to the FieldReportDB ended
Op(op, key, out, primary) == [op |-> op, key |-> key, out |-> out, primary |-> primary]

BlobSize(blob) == blob

\* saveLocation: one put of {...location, lastSaved: Date.now()}
SaveLocationPut(store, location, t) == Put(store, location.id, [location EXCEPT !.lastSaved = t])

\* loadAllLocations, when the database opens
LoadAllLocations(store) == SortByLastSaved(GetAll(store))

\* loadPhotoBlob: the blob, or null (modelled as 0)
NoBlob == 0
LoadPhotoBlob(store, photoId) == IF photoId \in DOMAIN store THEN store[photoId] ELSE NoBlob

\* deleteLocation: the keys its loop deletes from 'photos' and 'metadata'
RelatedPhotoKeys(meta, id) == {meta[k].name : k \in {x \in DOMAIN meta : meta[x].locationId = id}}

SaveLocation(location, out) ==
    /\ lastOp' = Op("saveLocation", location.id, out, out)
    /\ locations' = IF out = "ok" THEN SaveLocationPut(locations, location, now) ELSE locations
    /\ UNCHANGED << photos, metadata, ls, now, psVars, handleVars, migVars, appVars >>

DeleteLocation(id, out) ==
    /\ lastOp' = Op("deleteLocation", id, out, out)
    /\ IF out = "ok"
       THEN /\ locations' = Del(locations, id)
            /\ photos' = DelAll(photos, RelatedPhotoKeys(metadata, id))
            /\ metadata' = DelAll(metadata, RelatedPhotoKeys(metadata, id))
       ELSE UNCHANGED storeVars
    /\ UNCHANGED << ls, now, psVars, handleVars, migVars, appVars >>

MetadataRow(name, blob, locationId, floorId, t) ==
    [name |-> name, timestamp |-> t, size |-> BlobSize(blob),
     locationId |-> locationId, floorId |-> floorId]

\* a savePhotoBlob whose transaction keeps the blob and loses the metadata row
SavePhotoBlobOnly(photoId, blob, name, locationId, out) ==
    /\ lastOp' = Op("savePhotoBlob", photoId, out, out)
    /\ photos' = Put(photos, photoId, blob)
    /\ UNCHANGED << metadata, locations, ls, now, psVars, handleVars, migVars, appVars >>

SavePhotoBlob(photoId, blob, name, locationId, out) ==
    /\ lastOp' = Op("savePhotoBlob", photoId, out, out)
    /\ IF out = "ok"
       THEN /\ photos' = Put(photos, photoId, blob)
            /\ metadata' = Put(metadata, photoId, MetadataRow(name, blob, locationId, 1, now))
       ELSE UNCHANGED << photos, metadata >>
    /\ UNCHANGED << locations, ls, now, psVars, handleVars, migVars, appVars >>

DeletePhotoBlob(photoId, out) ==
    /\ lastOp' = Op("deletePhotoBlob", photoId, out, out)
    /\ IF out = "ok"
       THEN /\ photos' = Del(photos, photoId)
            /\ metadata' = Del(metadata, photoId)
       ELSE UNCHANGED << photos, metadata >>
    /\ UNCHANGED << locations, ls, now, psVars, handleVars, migVars, appVars >>

\* time passes
Tick ==
    /\ now < MaxTime
    /\ now' = now + 1
    /\ UNCHANGED << storeVars, ls, lastOp, psVars, handleVars, migVars, appVars >>

----------------------------------------------------------------------------
(* Initial state: a fresh install, the app not yet opened *)

NoOp == Op("none", 0, "ok", "ok")
NoStats == [success |-> 0, failed |-> 0, set |-> FALSE]
NoGet == [photoId |-> 0, url |-> 0, after |-> 0, rev |-> 0]
\* useState<Location>({ id: '', floors: [], ... }): the form before it is given a record
NoForm == [id |-> 0, body |-> 1, timestamp |-> 0, lastSaved |-> 0, floors |-> << >>]
NoUpload == [form |-> NoForm, outs |-> << >>]
\* no beforeunload event has been dispatched to the page
\* the database before any open created it
NoDatabase == [version |-> 0, stores |-> {}, conns |-> {}]
NoEvent == [phase |-> "none", out |-> "ok", canceled |-> FALSE, prevented |-> FALSE]
NoRecovery == [stored |-> << >>, local |-> << >>, emergency |-> {}, idbRead |-> FALSE,
               localRead |-> FALSE, result |-> << >>]
NoRun == [engine |-> "none", kinds |-> << >>, writeFailed |-> 0, saveFailed |-> 0,
          success |-> 0, failed |-> 0, writes |-> 0]

InitRest ==
    /\ psPhotos = Empty
    /\ psMetadata = Empty
    /\ now = 1
    /\ lastOp = NoOp
    /\ urlCache = Empty
    /\ urlCacheRef = Empty
    /\ liveUrls = {}
    /\ nextUrl = 1
    /\ urlOwner = Empty
    /\ calls = {}
    /\ lastUrl = [p \in PhotoIds |-> 0]
    /\ lastRevoked = [p \in PhotoIds |-> 0]
    /\ lastGet = NoGet
    /\ session = 0
    /\ dbUp = TRUE
    /\ migrationStatus = "pending"
    /\ migrationStats = NoStats
    /\ pcB = "done"
    /\ indexMounted = FALSE
    /\ pendingInit = 0
    /\ pendingLoad = 0
    /\ forced = 0
    /\ flagAtStart = FALSE
    /\ lastRun = NoRun
    /\ formData = NoForm
    /\ nextId = 1
    /\ emergency = Empty
    /\ lastRecovery = NoRecovery
    /\ pendingUpload = NoUpload
    /\ unloadEvent = NoEvent
    /\ fieldReportDb = NoDatabase

InitCommon ==
    /\ locations = Empty
    /\ photos = Empty
    /\ metadata = Empty
    /\ InitRest

----------------------------------------------------------------------------
(* SpecStore: the Blob Store's own operations *)

FormLocation(id, body) ==
    Location(id, body,
             IF id \in DOMAIN locations THEN locations[id].timestamp ELSE now,
             NoLastSaved, << Floor(1, << >>) >>)

InitStore == InitCommon /\ ls = Empty

NextStore ==
    \/ \E id \in RecIds, body \in Bodies, out \in Outcomes : SaveLocation(FormLocation(id, body), out)
    \/ \E id \in RecIds, out \in Outcomes : DeleteLocation(id, out)
    \/ \E p \in PhotoIds, n \in Names, id \in RecIds, out \in Outcomes : SavePhotoBlob(p, 1, n, id, out)
    \/ \E p \in PhotoIds, out \in Outcomes : DeletePhotoBlob(p, out)
    \/ Tick

SpecStore == InitStore /\ [][NextStore]_vars

----------------------------------------------------------------------------
(* C2: after deleteLocation(id) completed, no photo stored with owning record
   id (locationId = id) is left in 'photos' or 'metadata' (so loadPhotoBlob
   returns null for it), and loadAllLocations() does not contain the record. *)

PhotosOwnedBy(id) ==
    {p \in (DOMAIN metadata) \cup (DOMAIN photos) :
        p \in DOMAIN metadata /\ metadata[p].locationId = id}

C2_CascadeDelete ==
    (lastOp.op = "deleteLocation" /\ lastOp.out = "ok") =>
        /\ lastOp.key \notin Ids(LoadAllLocations(locations))
        /\ \A p \in PhotosOwnedBy(lastOp.key) :
              /\ p \notin DOMAIN metadata
              /\ LoadPhotoBlob(photos, p) = NoBlob

----------------------------------------------------------------------------
(* Legacy tier and the safe record writer: utils/storage.ts *)

STORAGE_KEY == "fieldReportLocations"

\* the serialized size of a record in bytes: body 1 is a text-only record,
\* any other body carries inline base64 photos
SmallBytes == 1024
LargeBytes == 3145728
LocationBytes(loc) == IF loc.body = 1 THEN SmallBytes ELSE LargeBytes

RECURSIVE SerializedSize(_)
SerializedSize(list) ==
    IF list = << >> THEN 2
    ELSE LocationBytes(Head(list)) + SerializedSize(Tail(list))

\* 5 * 1024 * 1024
LS_CEILING == 5242880

\* localStorage.getItem(STORAGE_KEY), parsed; [] when the key is absent
LocalList(store) == IF STORAGE_KEY \in DOMAIN store THEN store[STORAGE_KEY] ELSE << >>

RECURSIVE InsertDescTs(_, _)
InsertDescTs(sorted, loc) ==
    IF sorted = << >> THEN << loc >>
    ELSE IF Head(sorted).timestamp >= loc.timestamp
         THEN << Head(sorted) >> \o InsertDescTs(Tail(sorted), loc)
         ELSE << loc >> \o sorted

RECURSIVE SortByTimestamp(_)
SortByTimestamp(list) ==
    IF list = << >> THEN << >>
    ELSE InsertDescTs(SortByTimestamp(SubSeq(list, 1, Len(list) - 1)), list[Len(list)])

\* loadFromIndexedDB: every record, newest timestamp first; [] when the read fails
LoadFromIndexedDB(store, readOk) == IF readOk THEN SortByTimestamp(GetAll(store)) ELSE << >>

\* how the fallback of loadLocations goes: both steps work, the database read
\* fails, or the backup write to localStorage fails
LoadEnvs == {"ok", "readFail", "backupFail"}

\* an environment choice that the load does not consult changes nothing
Consulted(lsv, env) == env = "ok" \/ Len(LocalList(lsv)) = 0

\* loadLocations: the legacy list, or the database when the legacy list is empty
LoadLocations(lsv, store, env) ==
    IF Len(LocalList(lsv)) # 0 THEN LocalList(lsv)
    ELSE LoadFromIndexedDB(store, env # "readFail")

\* loadLocations backs the database list up into localStorage
LoadLocationsBackup(lsv, store, env) ==
    IF Len(LocalList(lsv)) = 0 /\ Len(LoadFromIndexedDB(store, env # "readFail")) > 0
       /\ env # "backupFail"
    THEN Put(lsv, STORAGE_KEY, LoadFromIndexedDB(store, env # "readFail"))
    ELSE lsv

\* findIndex: the first index holding the id, 0 when there is none
FindIndex(list, id) ==
    IF \E i \in 1..Len(list) : list[i].id = id
    THEN CHOOSE i \in 1..Len(list) : list[i].id = id /\ \A j \in 1..(i - 1) : list[j].id # id
    ELSE 0

\* replace in place, or prepend
Upsert(list, location) ==
    IF FindIndex(list, location.id) > 0
    THEN [list EXCEPT ![FindIndex(list, location.id)] = location]
    ELSE << location >> \o list

\* how localStorage.setItem ends; QuotaExceededTwice: the retry after
\* removeItem is rejected as well
LsOutcomes == {"ok", "QuotaExceeded", "QuotaExceededTwice", "other"}

\* step 4 of saveLocationSafely: the backup of the whole list
SafeBackup(lsv, updated, location, lsOut) ==
    IF SerializedSize(updated) < LS_CEILING
    THEN CASE lsOut = "ok" -> Put(lsv, STORAGE_KEY, updated)
           [] lsOut = "QuotaExceeded" -> Put(lsv, STORAGE_KEY, << location >>)
           [] lsOut = "QuotaExceededTwice" -> Del(lsv, STORAGE_KEY)
           [] OTHER -> lsv
    ELSE lsv

\* what saveLocationSafely hands its caller after the put ended as putOut
SafeSaveResult(putOut) == "ok"

\* step 3 of saveLocationSafely: store.put(location)
SafePut(store, location, putOut) ==
    IF putOut = "ok" THEN Put(store, location.id, location) ELSE store

SaveLocationSafely(location, env, putOut, lsOut) ==
    LET existing == LoadLocations(ls, locations, env)
        ls1 == LoadLocationsBackup(ls, locations, env)
        updated == Upsert(existing, location)
    IN  /\ Consulted(ls, env)
        /\ locations' = SafePut(locations, location, putOut)
        /\ ls' = SafeBackup(ls1, updated, location, lsOut)
        /\ lastOp' = Op("saveLocationSafely", location.id, SafeSaveResult(putOut), putOut)
        /\ UNCHANGED << photos, metadata, now, psVars, handleVars, migVars, appVars >>

\* saveToIndexedDB: clear() and one add() per record in one transaction;
\* a failed request aborts the transaction, and the error is logged only
SaveToIndexedDB(store, list, out) ==
    IF out = "ok" /\ Cardinality(Ids(list)) = Len(list)
    THEN [id \in Ids(list) |-> list[FindIndex(list, id)]]
    ELSE store

\* saveLocations: localStorage first (errors logged), then saveToIndexedDB
SaveLocationsLs(lsv, list, lsOk) == IF lsOk THEN Put(lsv, STORAGE_KEY, list) ELSE lsv

\* LocationForm (localStorage generation): handleBeforeUnload flushes the form
\* through loadLocations / saveLocations
HandleBeforeUnload(form, env, lsOk, out) ==
    LET existing == LoadLocations(ls, locations, env)
        ls1 == LoadLocationsBackup(ls, locations, env)
        updated == Upsert(existing, [form EXCEPT !.lastSaved = now])
    IN  /\ Consulted(ls, env)
        /\ ls' = SaveLocationsLs(ls1, updated, lsOk)
        /\ locations' = SaveToIndexedDB(locations, updated, out)
        /\ lastOp' = Op("handleBeforeUnload", form.id, "ok", out)
        /\ UNCHANGED << photos, metadata, now, psVars, handleVars, migVars, appVars >>

\* LocationForm (IndexedDB generation): handleBeforeUnload saves the form with
\* saveLocation; a failure asks for the leave confirmation
HandleBeforeUnloadV2(form, out) ==
    /\ locations' = IF out = "ok" THEN SaveLocationPut(locations, form, now) ELSE locations
    /\ lastOp' = Op("handleBeforeUnloadV2", form.id, IF out = "ok" THEN "ok" ELSE "confirm", out)
    /\ UNCHANGED << photos, metadata, ls, now, psVars, handleVars, migVars, appVars >>

\* the form as the caller of saveLocationSafely stamps it (lastSaved: Date.now())
StampedForm(id, body) == [FormLocation(id, body) EXCEPT !.lastSaved = now]

InitWriter == InitCommon /\ ls = Empty

NextWriter ==
    \/ \E id \in RecIds, body \in Bodies, env \in LoadEnvs, putOut \in Outcomes, lsOut \in LsOutcomes :
            SaveLocationSafely(StampedForm(id, body), env, putOut, lsOut)
    \/ \E id \in RecIds, body \in Bodies, env \in LoadEnvs, lsOk \in BOOLEAN, out \in Outcomes :
            HandleBeforeUnload(FormLocation(id, body), env, lsOk, out)
    \/ \E id \in RecIds, body \in Bodies, out \in Outcomes :
            HandleBeforeUnloadV2(FormLocation(id, body), out)
    \/ \E id \in RecIds, body \in Bodies, out \in Outcomes : SaveLocation(FormLocation(id, body), out)
    \/ Tick

SpecWriter == InitWriter /\ [][NextWriter]_vars

----------------------------------------------------------------------------
(* C1: when the platform rejects the records-collection write of
   saveLocationSafely for quota reasons, saveLocationSafely fails with
   QuotaExceeded to its caller and never returns normally. *)

C1_QuotaSurfaces ==
    (lastOp.op = "saveLocationSafely" /\ lastOp.primary = "QuotaExceeded") =>
        lastOp.out = "QuotaExceeded"

(* C3: every record save (saveLocationSafely, saveLocation and the teardown
   flush) writes only the entry of the saved record's id in the 'locations'
   store: every other stored record is the same before and after the save. *)

SaveOps == {"saveLocationSafely", "saveLocation", "handleBeforeUnload", "handleBeforeUnloadV2"}

SameEntry(id) ==
    /\ (id \in DOMAIN locations) <=> (id \in DOMAIN locations')
    /\ (id \in DOMAIN locations) => (locations'[id] = locations[id])

C3_SingleRecordWrite ==
    [][ lastOp'.op \in SaveOps =>
          \A id \in RecIds \ {lastOp'.key} : SameEntry(id) ]_vars

----------------------------------------------------------------------------
(* Handle cache: storage-indexeddb.ts urlCache and usePhotoManagerV2 *)

MAX_RETRY == 3

\* null
NoUrl == 0

CacheGet(cache, photoId) == IF photoId \in DOMAIN cache THEN cache[photoId] ELSE NoUrl

\* a revokePhotoUrl that releases the URL and keeps the cache entry
RevokePhotoUrlKeepsEntry(cache, photoId) == cache

\* revokePhotoUrl: the module cache after it
RevokePhotoUrl(cache, photoId) == Del(cache, photoId)

\* revokeSingleUrl: the hook cache after it
RevokeHookUrl(cache, photoId) == Del(cache, photoId)

\* a getPhotoUrl call as it is suspended: after and rev are what the call saw
\* when it was made (lastUrl and lastRevoked of its photo id)
Call(n, photoId, retry, stage, after, rev) ==
    [n |-> n, photoId |-> photoId, retry |-> retry, stage |-> stage, after |-> after, rev |-> rev]

\* two calls in flight are two promises, also when they were made with the
\* same arguments: n tells them apart
FreeCall == CHOOSE n \in 1..MaxCalls :
                /\ \A c \in calls : c.n # n
                /\ \A m \in 1..(n - 1) : \E c \in calls : c.n = m

\* a getPhotoUrl call returns url to its caller
Finish(photoId, url, after, rev) ==
    /\ lastGet' = [photoId |-> photoId, url |-> url, after |-> after, rev |-> rev]
    /\ lastUrl' = [lastUrl EXCEPT ![photoId] = url]
    /\ lastRevoked' = [lastRevoked EXCEPT ![photoId] = NoUrl]

\* getPhotoUrl up to its first await: the hook cache, then createPhotoUrl's
\* check of the module cache
Attempt(n, photoId, retry, after, rev, rest) ==
    IF CacheGet(urlCacheRef, photoId) # NoUrl
    THEN /\ Finish(photoId, CacheGet(urlCacheRef, photoId), after, rev)
         /\ calls' = rest
         /\ UNCHANGED << urlCache, urlCacheRef >>
    ELSE IF CacheGet(urlCache, photoId) # NoUrl
    THEN /\ Finish(photoId, CacheGet(urlCache, photoId), after, rev)
         /\ urlCacheRef' = Put(urlCacheRef, photoId, CacheGet(urlCache, photoId))
         /\ calls' = rest
         /\ UNCHANGED urlCache
    ELSE /\ calls' = rest \cup {Call(n, photoId, retry, "load", after, rev)}
         /\ UNCHANGED << urlCache, urlCacheRef, lastGet, lastUrl, lastRevoked >>

GetPhotoUrl(photoId) ==
    /\ Cardinality(calls) < MaxCalls
    /\ nextUrl + Cardinality(calls) <= MaxUrls
    /\ Attempt(FreeCall, photoId, 0, lastUrl[photoId], lastRevoked[photoId], calls)
    /\ UNCHANGED << liveUrls, nextUrl, urlOwner >>
    /\ UNCHANGED << storeVars, ls, now, lastOp, psVars, migVars, appVars >>

\* createPhotoUrl after its await of loadPhotoBlob, and getPhotoUrl after it
LoadDone(c, readOk) ==
    /\ c \in calls
    /\ c.stage = "load"
    /\ IF readOk /\ LoadPhotoBlob(photos, c.photoId) # NoBlob
       THEN /\ liveUrls' = liveUrls \cup {nextUrl}
            /\ nextUrl' = nextUrl + 1
            /\ urlOwner' = Put(urlOwner, nextUrl, c.photoId)
            /\ urlCache' = Put(urlCache, c.photoId, nextUrl)
            /\ urlCacheRef' = Put(urlCacheRef, c.photoId, nextUrl)
            /\ calls' = calls \ {c}
            /\ Finish(c.photoId, nextUrl, c.after, c.rev)
       ELSE /\ UNCHANGED << liveUrls, nextUrl, urlOwner, urlCache, urlCacheRef >>
            /\ IF c.retry < MAX_RETRY
               THEN /\ calls' = (calls \ {c}) \cup {Call(c.n, c.photoId, c.retry + 1, "timer", c.after, c.rev)}
                    /\ UNCHANGED << lastGet, lastUrl, lastRevoked >>
               ELSE /\ calls' = calls \ {c}
                    /\ Finish(c.photoId, NoUrl, c.after, c.rev)
    /\ UNCHANGED << storeVars, ls, now, lastOp, psVars, migVars, appVars >>

\* the retry timer of getPhotoUrl fires
RetryFire(c) ==
    /\ c \in calls
    /\ c.stage = "timer"
    /\ Attempt(c.n, c.photoId, c.retry, c.after, c.rev, calls \ {c})
    /\ UNCHANGED << liveUrls, nextUrl, urlOwner >>
    /\ UNCHANGED << storeVars, ls, now, lastOp, psVars, migVars, appVars >>

\* a revoke between two calls: the suspended calls of the id no longer follow
\* the call that finished before them
Interrupted(ids) ==
    {IF c.photoId \in ids THEN [c EXCEPT !.after = NoUrl] ELSE c : c \in calls}

RevokeSingleUrl(photoId) ==
    /\ liveUrls' = liveUrls \ {CacheGet(urlCacheRef, photoId), CacheGet(urlCache, photoId)}
    /\ urlCacheRef' = RevokeHookUrl(urlCacheRef, photoId)
    /\ urlCache' = RevokePhotoUrl(urlCache, photoId)
    /\ lastRevoked' = [lastRevoked EXCEPT ![photoId] =
                          IF CacheGet(urlCacheRef, photoId) # NoUrl
                          THEN CacheGet(urlCacheRef, photoId)
                          ELSE IF CacheGet(urlCache, photoId) # NoUrl
                               THEN CacheGet(urlCache, photoId)
                               ELSE lastRevoked[photoId]]
    /\ lastUrl' = [lastUrl EXCEPT ![photoId] = NoUrl]
    /\ calls' = Interrupted({photoId})
    /\ UNCHANGED << nextUrl, urlOwner, lastGet >>
    /\ UNCHANGED << storeVars, ls, now, lastOp, psVars, migVars, appVars >>

Range(f) == {f[x] : x \in DOMAIN f}

RevokeAllUrls ==
    /\ liveUrls' = liveUrls \ (Range(urlCacheRef) \cup Range(urlCache))
    /\ urlCacheRef' = Empty
    /\ urlCache' = Empty
    /\ lastUrl' = [p \in PhotoIds |-> NoUrl]
    /\ calls' = Interrupted(PhotoIds)
    /\ UNCHANGED << nextUrl, urlOwner, lastGet, lastRevoked >>
    /\ UNCHANGED << storeVars, ls, now, lastOp, psVars, migVars, appVars >>

\* usePhotoManagerV2.removePhoto: releases the hook's URL, then deletePhotoBlob
\* (a database error is logged only)
RemovePhoto(photoId, out) ==
    /\ liveUrls' = liveUrls \ {CacheGet(urlCacheRef, photoId)}
    /\ urlCacheRef' = Del(urlCacheRef, photoId)
    /\ IF out = "ok"
       THEN /\ photos' = Del(photos, photoId)
            /\ metadata' = Del(metadata, photoId)
       ELSE UNCHANGED << photos, metadata >>
    /\ UNCHANGED << urlCache, nextUrl, urlOwner, calls, lastUrl, lastRevoked, lastGet >>
    /\ UNCHANGED << locations, ls, now, lastOp, psVars, migVars, appVars >>

InitHandle == InitCommon /\ ls = Empty

NextHandle ==
    \/ \E p \in PhotoIds : GetPhotoUrl(p)
    \/ \E c \in calls, readOk \in BOOLEAN : LoadDone(c, readOk)
    \/ \E c \in calls : RetryFire(c)
    \/ \E p \in PhotoIds : RevokeSingleUrl(p)
    \/ RevokeAllUrls
    \/ \E p \in PhotoIds, out \in {"ok", "StorageUnavailable"} : RemovePhoto(p, out)
    \/ \E p \in PhotoIds : SavePhotoBlob(p, 1, 0, 1, "ok")

SpecHandle == InitHandle /\ [][NextHandle]_vars

----------------------------------------------------------------------------
(* C10: a getPhotoUrl call made after an earlier call for the same photo id
   returned a URL, with no revoke in between, returns that same URL; the
   first getPhotoUrl call made after revokeSingleUrl of the id does not
   return the revoked URL. *)

C10_SameHandleUntilRevoke ==
    /\ lastGet.after # NoUrl => lastGet.url = lastGet.after
    /\ lastGet.rev # NoUrl => lastGet.url # lastGet.rev

C10_Witness ==
    /\ lastGet.rev # NoUrl
    /\ lastGet.url # NoUrl
    /\ lastGet.url # lastGet.rev
    /\ lastGet.url \in liveUrls

----------------------------------------------------------------------------
(* Migration: localStorage -> IndexedDB.
   Engine A is storage-indexeddb.ts migrateFromLocalStorage, started by
   Index.initializeData; engine B is photo-store.ts migrateFromLocalStorage,
   started by the useMigration hook that MigrationLoader renders. *)

MaxSessions == 2
MaxForce == 1

MIGRATION_FLAG_KEY == "photos_migrated_to_indexeddb"

\* the key engine B scans (keys spelled location_<id> hold one record each and
\* are scanned the same way)
LOCATIONS_KEY == "locations"

\* photo.data: none (no payload, or one that is no data:image/ URL), a data
\* URL that decodes, a data URL that does not decode
Payloads == {"none", "valid", "corrupt"}

Photo(id, name, data) == [id |-> id, name |-> name, data |-> data]

\* photo.data && photo.data.startsWith('data:image/')
HasImagePrefix(photo) == photo.data \in {"valid", "corrupt"}

\* fetch(photo.data).blob() / base64ToBlob(photo.data): the blob, or an
\* exception (modelled as NoBlob)
DecodedBlob(photo) == IF photo.data = "valid" THEN 1 ELSE NoBlob

\* a checkMigrationStatus that never sees the flag
CheckMigrationStatusBlind(lsv) == FALSE

\* checkMigrationStatus
CheckMigrationStatus(lsv) == MIGRATION_FLAG_KEY \in DOMAIN lsv

\* localStorage.setItem(MIGRATION_FLAG_KEY, 'true')
SetFlag(lsv) == Put(lsv, MIGRATION_FLAG_KEY, TRUE)

\* the photos of one floor, each with the id of its floor
FloorPhotos(floor) ==
    [i \in 1..Len(floor.photos) |-> [photo |-> floor.photos[i], floorId |-> floor.id]]

\* the photos of a record in the order the nested loops visit them
RECURSIVE FloorsPhotos(_)
FloorsPhotos(floors) ==
    IF floors = << >> THEN << >>
    ELSE FloorPhotos(Head(floors)) \o FloorsPhotos(Tail(floors))

LocationPhotos(location) == FloorsPhotos(location.floors)

RECURSIVE ListPhotos(_)
ListPhotos(list) ==
    IF list = << >> THEN << >>
    ELSE LocationPhotos(Head(list)) \o ListPhotos(Tail(list))

\* a scan that loses its failures
CountFailedDropped(result) == result

\* result.failed++
CountFailed(result) == [result EXCEPT !.failed = @ + 1]

\* result.success++
CountSuccess(result) == [result EXCEPT !.success = @ + 1]

\* what a scan starts from: the stores as they are and result = {0, 0}
ScanStart(photoStore, metaStore, locStore) ==
    [photos |-> photoStore, metadata |-> metaStore, locations |-> locStore,
     success |-> 0, failed |-> 0, writes |-> 0, migrated |-> {}]

\* engine A, one photo: skipped without the prefix; decoded and saved with
\* savePhotoBlob and its data deleted; or counted as failed
PhotoStepA(acc, entry, locationId, failP, t) ==
    IF ~HasImagePrefix(entry.photo) THEN acc
    ELSE IF DecodedBlob(entry.photo) = NoBlob \/ entry.photo.id \in failP
         THEN CountFailed(acc)
         ELSE CountSuccess(
                [acc EXCEPT !.photos = Put(@, entry.photo.id, DecodedBlob(entry.photo)),
                            !.metadata = Put(@, entry.photo.id,
                                             MetadataRow(entry.photo.name, DecodedBlob(entry.photo),
                                                         locationId, entry.floorId, t)),
                            !.writes = @ + 1,
                            !.migrated = @ \cup {entry.photo.id}])

RECURSIVE ScanPhotosA(_, _, _, _, _)
ScanPhotosA(acc, entries, locationId, failP, t) ==
    IF entries = << >> THEN acc
    ELSE ScanPhotosA(PhotoStepA(acc, Head(entries), locationId, failP, t),
                     Tail(entries), locationId, failP, t)

\* delete photo.data, for the photos the scan has migrated
StripFloor(floor, migrated) ==
    [floor EXCEPT !.photos =
        [i \in 1..Len(floor.photos) |->
            IF floor.photos[i].id \in migrated
            THEN [floor.photos[i] EXCEPT !.data = "none"]
            ELSE floor.photos[i]]]

StripLocation(location, migrated) ==
    [location EXCEPT !.floors =
        [i \in 1..Len(location.floors) |-> StripFloor(location.floors[i], migrated)]]

\* engine A, one record: its photos, then saveLocation(location)
LocationStepA(acc, location, failP, failR, t) ==
    LET scanned == ScanPhotosA(acc, LocationPhotos(location), location.id, failP, t)
    IN  IF location.id \in failR
        THEN CountFailed(scanned)
        ELSE [scanned EXCEPT
                 !.locations = SaveLocationPut(@, StripLocation(location, scanned.migrated), t),
                 !.writes = @ + 1]

RECURSIVE ScanLocationsA(_, _, _, _, _)
ScanLocationsA(acc, list, failP, failR, t) ==
    IF list = << >> THEN acc
    ELSE ScanLocationsA(LocationStepA(acc, Head(list), failP, failR, t),
                        Tail(list), failP, failR, t)

\* engine A: storage-indexeddb.ts migrateFromLocalStorage
MigrateA(lsv, acc, failP, failR, t) ==
    IF STORAGE_KEY \notin DOMAIN lsv THEN acc
    ELSE ScanLocationsA(acc, lsv[STORAGE_KEY], failP, failR, t)

\* photo-store.ts savePhoto's metadata row
PhotoStoreRow(name, blob, t) == [name |-> name, timestamp |-> t, size |-> BlobSize(blob)]

\* engine B, one photo: skipped without the prefix; decoded and saved with
\* savePhoto; or counted as failed
PhotoStepB(acc, entry, failP, t) ==
    IF ~HasImagePrefix(entry.photo) THEN acc
    ELSE IF DecodedBlob(entry.photo) = NoBlob \/ entry.photo.id \in failP
         THEN CountFailed(acc)
         ELSE CountSuccess(
                [acc EXCEPT !.photos = Put(@, entry.photo.id, DecodedBlob(entry.photo)),
                            !.metadata = Put(@, entry.photo.id,
                                             PhotoStoreRow(entry.photo.name, DecodedBlob(entry.photo), t)),
                            !.writes = @ + 1])

RECURSIVE ScanPhotosB(_, _, _, _)
ScanPhotosB(acc, entries, failP, t) ==
    IF entries = << >> THEN acc
    ELSE ScanPhotosB(PhotoStepB(acc, Head(entries), failP, t), Tail(entries), failP, t)

\* the records engine B finds in localStorage
LegacyLocations(lsv) == IF LOCATIONS_KEY \in DOMAIN lsv THEN lsv[LOCATIONS_KEY] ELSE << >>

\* engine B: photo-store.ts migrateFromLocalStorage
MigrateB(lsv, acc, failP, t) == ScanPhotosB(acc, ListPhotos(LegacyLocations(lsv)), failP, t)

\* photo-store.ts getStorageStats().count: 0 when the database does not open
StatsCount(store, up) == IF up THEN Cardinality(DOMAIN store) ELSE 0

\* initializeData's needsMigration: localStorage.getItem('fieldReportLocations')
HasLocalData(lsv) == STORAGE_KEY \in DOMAIN lsv

\* initializeMigration's hasLegacyData
HasLegacyData(lsv) ==
    \E i \in DOMAIN ListPhotos(LegacyLocations(lsv)) :
        HasImagePrefix(ListPhotos(LegacyLocations(lsv))[i].photo)

\* MigrationLoader: does it render its children
ChildrenRendered(status) == status \notin {"running", "failed"}

----------------------------------------------------------------------------
(* SpecMig: page loads, the useMigration hook, MigrationLoader and
   Index.initializeData *)

\* the payloads of the photos of a scan, in scan order
KindsOf(entries) == [i \in 1..Len(entries) |-> entries[i].photo.data]

\* how many decodable photos of a scan the Blob Store refuses to write
WriteFailures(entries, failP) ==
    Cardinality({i \in DOMAIN entries :
                    entries[i].photo.data = "valid" /\ entries[i].photo.id \in failP})

Run(engine, entries, failP, saveFailed, acc) ==
    [engine |-> engine, kinds |-> KindsOf(entries),
     writeFailed |-> WriteFailures(entries, failP), saveFailed |-> saveFailed,
     success |-> acc.success, failed |-> acc.failed, writes |-> acc.writes]

\* the writes that fail when nothing but the database's state decides
DownPhotos(up) == IF up THEN {} ELSE PhotoIds
DownRecords(up) == IF up THEN {} ELSE RecIds

\* one call of engine A, the writes of failP and failR failing
EngineA(failP, failR) ==
    LET acc == MigrateA(ls, ScanStart(photos, metadata, locations), failP, failR, now)
    IN  /\ photos' = acc.photos
        /\ metadata' = acc.metadata
        /\ locations' = acc.locations
        /\ lastRun' = IF STORAGE_KEY \in DOMAIN ls
                      THEN Run("A", ListPhotos(ls[STORAGE_KEY]), failP,
                               Cardinality(Ids(ls[STORAGE_KEY]) \cap failR), acc)
                      ELSE lastRun

\* one call of engine B, the writes of failP failing
EngineB(failP) ==
    LET acc == MigrateB(ls, ScanStart(psPhotos, psMetadata, Empty), failP, now)
    IN  /\ psPhotos' = acc.photos
        /\ psMetadata' = acc.metadata
        /\ migrationStats' = [success |-> acc.success, failed |-> acc.failed, set |-> TRUE]
        /\ lastRun' = Run("B", ListPhotos(LegacyLocations(ls)), failP, 0, acc)

\* the page is loaded: first render of MigrationLoader with status 'pending'
\* and of its children, the effect of Index starts initializeData
AppStart(up) ==
    /\ session < MaxSessions
    /\ session' = session + 1
    /\ dbUp' = up
    /\ migrationStatus' = "pending"
    /\ migrationStats' = NoStats
    /\ pcB' = "init"
    /\ indexMounted' = ChildrenRendered("pending")
    /\ pendingInit' = 1
    /\ pendingLoad' = 0
    /\ forced' = 0
    /\ flagAtStart' = CheckMigrationStatus(ls)
    /\ lastRun' = NoRun
    /\ lastOp' = Op("appStart", 0, "ok", "ok")
    /\ UNCHANGED << storeVars, psVars, ls, now, handleVars, appVars >>

\* initializeMigration up to its first await
InitializeMigration ==
    /\ pcB = "init"
    /\ IF CheckMigrationStatus(ls)
       THEN /\ migrationStatus' = "completed"
            /\ pcB' = "done"
       ELSE /\ pcB' = "stats"
            /\ UNCHANGED migrationStatus
    /\ lastOp' = Op("initializeMigration", 0, "ok", "ok")
    /\ UNCHANGED << storeVars, psVars, ls, now, handleVars, appVars >>
    /\ UNCHANGED << session, dbUp, migrationStats, indexMounted, pendingInit, pendingLoad,
                    forced, flagAtStart, lastRun >>

\* runMigration up to its await of the scan
RunMigrationStart(lsv) ==
    IF CheckMigrationStatus(lsv)
    THEN /\ migrationStatus' = "completed"
         /\ pcB' = "done"
         /\ indexMounted' = ChildrenRendered("completed")
         /\ pendingInit' = IF indexMounted THEN pendingInit ELSE pendingInit + 1
    ELSE /\ migrationStatus' = "running"
         /\ pcB' = "scan"
         /\ indexMounted' = ChildrenRendered("running")
         /\ UNCHANGED pendingInit

\* initializeMigration after getStorageStats: skip, or run the migration
AfterStats(flagOk) ==
    /\ pcB = "stats"
    /\ IF StatsCount(psPhotos, dbUp) > 0 \/ ~HasLegacyData(ls)
       THEN /\ pcB' = "done"
            /\ IF flagOk
               THEN /\ ls' = SetFlag(ls)
                    /\ migrationStatus' = "completed"
               ELSE UNCHANGED << ls, migrationStatus >>
            /\ UNCHANGED << indexMounted, pendingInit >>
       ELSE /\ flagOk
            /\ RunMigrationStart(ls)
            /\ UNCHANGED ls
    /\ lastOp' = Op("initializeMigration", 0, IF flagOk THEN "ok" ELSE "QuotaExceeded", "ok")
    /\ UNCHANGED << storeVars, psVars, now, handleVars, appVars >>
    /\ UNCHANGED << session, dbUp, migrationStats, pendingLoad, forced, flagAtStart, lastRun >>

\* runMigration from the scan of engine B to its end
ScanDone(flagOk) ==
    /\ pcB = "scan"
    /\ EngineB(DownPhotos(dbUp))
    /\ pcB' = "done"
    /\ IF flagOk
       THEN /\ ls' = SetFlag(ls)
            /\ migrationStatus' = "completed"
            /\ indexMounted' = ChildrenRendered("completed")
            /\ pendingInit' = IF indexMounted THEN pendingInit ELSE pendingInit + 1
       ELSE /\ migrationStatus' = "failed"
            /\ indexMounted' = ChildrenRendered("failed")
            /\ UNCHANGED << ls, pendingInit >>
    /\ lastOp' = Op("runMigration", 0, IF flagOk THEN "ok" ELSE "QuotaExceeded",
                    IF dbUp THEN "ok" ELSE "StorageUnavailable")
    /\ UNCHANGED << storeVars, now, handleVars, appVars >>
    /\ UNCHANGED << session, dbUp, pendingLoad, forced, flagAtStart >>

\* forceMigration: removes the flag and calls runMigration
ForceMigration ==
    /\ session > 0
    /\ pcB = "done"
    /\ forced < MaxForce
    /\ forced' = forced + 1
    /\ ls' = Del(ls, MIGRATION_FLAG_KEY)
    /\ RunMigrationStart(ls')
    /\ lastOp' = Op("forceMigration", 0, "ok", "ok")
    /\ UNCHANGED << storeVars, psVars, now, handleVars, appVars >>
    /\ UNCHANGED << session, dbUp, migrationStats, pendingLoad, flagAtStart, lastRun >>

\* runMigration called through the hook's return value
RunMigration ==
    /\ session > 0
    /\ pcB = "done"
    /\ RunMigrationStart(ls)
    /\ lastOp' = Op("runMigration", 0, "ok", "ok")
    /\ UNCHANGED << storeVars, psVars, ls, now, handleVars, appVars >>
    /\ UNCHANGED << session, dbUp, migrationStats, pendingLoad, forced, flagAtStart, lastRun >>

\* Index.initializeData from loadSetting to the end of its migration block
InitializeDataMigrate ==
    /\ pcB # "init"
    /\ pendingInit > 0
    /\ pendingInit' = pendingInit - 1
    /\ pendingLoad' = pendingLoad + 1
    /\ EngineA(DownPhotos(dbUp), DownRecords(dbUp))
    /\ lastOp' = Op("migrateFromLocalStorage", 0, "ok", IF dbUp THEN "ok" ELSE "StorageUnavailable")
    /\ UNCHANGED << psVars, ls, now, handleVars, appVars >>
    /\ UNCHANGED << session, dbUp, migrationStatus, migrationStats, pcB, indexMounted,
                    forced, flagAtStart >>

\* how loadAllLocations ends for its caller: when initDB or getAll rejects, the
\* catch block returns [] and the promise resolves
LoadAllLocationsOut(up) == "ok"

\* Index.initializeData: loadAllLocations and getStorageStats
InitializeDataLoad ==
    /\ pendingLoad > 0
    /\ pendingLoad' = pendingLoad - 1
    /\ lastOp' = Op("loadAllLocations", 0, LoadAllLocationsOut(dbUp),
                    IF dbUp THEN "ok" ELSE "StorageUnavailable")
    /\ UNCHANGED << storeVars, psVars, ls, now, handleVars, appVars >>
    /\ UNCHANGED << session, dbUp, migrationStatus, migrationStats, pcB, indexMounted,
                    pendingInit, forced, flagAtStart, lastRun >>

\* the photos of record r in a legacy list: photo p belongs to record owner[p]
OwnedPhotos(r, owner, data) ==
    LET ids == KeysAscending({p \in PhotoIds : owner[p] = r})
    IN  [i \in 1..Len(ids) |-> Photo(ids[i], 0, data[ids[i]])]

LegacyLocation(r, owner, data) ==
    Location(r, 1, 1, NoLastSaved, << Floor(1, OwnedPhotos(r, owner, data)) >>)

\* the legacy lists: records 1..n, every photo id in exactly one of them
LegacyLists ==
    UNION { { [r \in 1..n |-> LegacyLocation(r, owner, data)] :
                owner \in [PhotoIds -> 1..n], data \in [PhotoIds -> Payloads] } :
            n \in RecIds }

\* where the list is kept: under the record writer's key, under the key the
\* hook scans, or under both
LegacyStore(list, where) ==
    CASE where = "writer" -> Put(Empty, STORAGE_KEY, list)
      [] where = "old" -> Put(Empty, LOCATIONS_KEY, list)
      [] where = "both" -> Put(Put(Empty, STORAGE_KEY, list), LOCATIONS_KEY, list)

LegacyPlaces == {"writer", "old", "both"}

\* before the first page load: one legacy record that holds every photo
InitMig ==
    /\ InitCommon
    /\ \E list \in {l \in LegacyLists : Len(l) = 1}, where \in LegacyPlaces :
           ls = LegacyStore(list, where)

NextMig ==
    \/ \E up \in BOOLEAN : AppStart(up)
    \/ InitializeMigration
    \/ \E flagOk \in BOOLEAN : AfterStats(flagOk)
    \/ \E flagOk \in BOOLEAN : ScanDone(flagOk)
    \/ ForceMigration
    \/ RunMigration
    \/ InitializeDataMigrate
    \/ InitializeDataLoad

SpecMig == InitMig /\ [][NextMig]_vars

----------------------------------------------------------------------------
(* SpecScan: one call of either engine on a legacy store, each Blob Store
   write free to fail on its own *)

\* the ids of the photos a scan of the list writes to the Blob Store
ScannedIds(list) ==
    {ListPhotos(list)[i].photo.id :
        i \in {j \in DOMAIN ListPhotos(list) : ListPhotos(list)[j].photo.data = "valid"}}

MigrateFromLocalStorageA(failP, failR) ==
    /\ lastRun.engine = "none"
    /\ failP \subseteq ScannedIds(LocalList(ls))
    /\ failR \subseteq Ids(LocalList(ls))
    /\ EngineA(failP, failR)
    /\ lastOp' = Op("migrateFromLocalStorage", 0, "ok", "ok")
    /\ UNCHANGED << psVars, ls, now, handleVars, appVars >>
    /\ UNCHANGED << session, dbUp, migrationStatus, migrationStats, pcB, indexMounted,
                    pendingInit, pendingLoad, forced, flagAtStart >>

MigrateFromLocalStorageB(failP) ==
    /\ lastRun.engine = "none"
    /\ failP \subseteq ScannedIds(LegacyLocations(ls))
    /\ EngineB(failP)
    /\ lastOp' = Op("migrateFromLocalStorage", 0, "ok", "ok")
    /\ UNCHANGED << storeVars, ls, now, handleVars, appVars >>
    /\ UNCHANGED << session, dbUp, migrationStatus, pcB, indexMounted,
                    pendingInit, pendingLoad, forced, flagAtStart >>

\* any legacy list, under either key or both
InitScan ==
    /\ InitCommon
    /\ \E list \in LegacyLists, where \in LegacyPlaces : ls = LegacyStore(list, where)

NextScan ==
    \/ \E failP \in SUBSET PhotoIds, failR \in SUBSET RecIds : MigrateFromLocalStorageA(failP, failR)
    \/ \E failP \in SUBSET PhotoIds : MigrateFromLocalStorageB(failP)

SpecScan == InitScan /\ [][NextScan]_vars

----------------------------------------------------------------------------
(* C4: in a page load that began with the Migration Flag set, and in which
   the flag was not cleared, a migration run writes nothing to the Blob
   Store: no photo blob, metadata row or record. *)

C4_SecondRunWritesNothing ==
    (flagAtStart /\ forced = 0 /\ lastRun.engine # "none") => lastRun.writes = 0

(* C5: once the migration status is completed in a page load that began with
   the flag unset (the database opening, the flag never cleared), every photo
   of the list under the record writer's key whose payload decodes is
   retrievable with loadPhotoBlob under its photo id. *)

C5_ValidPhotosRetrievable ==
    (session > 0 /\ ~flagAtStart /\ forced = 0 /\ dbUp /\ migrationStatus = "completed") =>
        \A i \in DOMAIN ListPhotos(LocalList(ls)) :
            ListPhotos(LocalList(ls))[i].photo.data = "valid" =>
                LoadPhotoBlob(photos, ListPhotos(LocalList(ls))[i].photo.id) # NoBlob

(* C6: a scan over k decodable and m undecodable inline payloads visits every
   photo and record: it reports success = k less the decodable photos whose
   Blob Store write failed, and failed = m plus those write failures plus
   (engine A) the records whose saveLocation failed. *)

CountKind(kinds, kind) == Cardinality({i \in DOMAIN kinds : kinds[i] = kind})

C6_ScanCounts ==
    lastRun.engine # "none" =>
        /\ lastRun.success = CountKind(lastRun.kinds, "valid") - lastRun.writeFailed
        /\ lastRun.failed = CountKind(lastRun.kinds, "corrupt") + lastRun.writeFailed
                              + lastRun.saveFailed

\* C6 as stated: success = k and failed = m whatever the writes do
C6_CountsAsClaimed ==
    lastRun.engine # "none" =>
        /\ lastRun.success = CountKind(lastRun.kinds, "valid")
        /\ lastRun.failed = CountKind(lastRun.kinds, "corrupt")

C6_Witness ==
    /\ lastRun.engine # "none"
    /\ Len(lastRun.kinds) >= 2
    /\ lastRun.kinds[1] = "corrupt"
    /\ lastRun.kinds[2] = "valid"
    /\ lastRun.success = 1
    /\ lastRun.failed = 1

(* C7: a run of the hook's engine during which the database never opens ends
   with migration status failed. *)

C7_UnreachableEndsFailed ==
    (migrationStats.set /\ ~dbUp /\ pcB = "done") => migrationStatus = "failed"

(* C8: within a page load the migration status changes only along
   pending -> running, pending -> completed, running -> completed,
   running -> failed, completed -> running and failed -> running; completed
   and failed are left only by forceMigration or runMigration, with the
   Migration Flag unset afterwards and the status going straight to running. *)

StatusSteps ==
    { << "pending", "running" >>, << "pending", "completed" >>,
      << "running", "completed" >>, << "running", "failed" >>,
      << "completed", "running" >>, << "failed", "running" >> }

C9_NoReadBeforeCompleted ==
    migrationStatus \in {"pending", "running"} => lastOp.op # "loadAllLocations"

----------------------------------------------------------------------------
(* LocationForm of the IndexedDB generation (components/LocationForm.tsx with
   usePhotoManagerV2): a selected file is compressed, stored as a blob under a
   fresh photo id and shown through a blob URL. The form has one floor. *)

MaxFiles == 2
MaxStored == 4
MaxNew == 2

\* the most photos a floor takes
MAX_PHOTOS == 5

\* photo.data holding a blob: URL, the string URL.createObjectURL returned
BlobUrl == "blobUrl"

\* generateId: the n-th id of this page load (no stored photo has it)
GenerateId(n) == MaxStored + n

\* how one file fares in uploadPhotosToServer: stored and shown,
\* saveCompressedPhoto returns false, getPhotoUrl returns null
UploadOutcomes == {"ok", "saveFail", "urlFail"}

\* the files of one selection, each with how it fares
UploadRuns == UNION {[1..n -> UploadOutcomes] : n \in 1..MaxFiles}

UploadStart ==
    [photos |-> photos, metadata |-> metadata, urlCache |-> urlCache,
     urlCacheRef |-> urlCacheRef, liveUrls |-> liveUrls, nextUrl |-> nextUrl,
     urlOwner |-> urlOwner,
     uploaded |-> << >>]

\* the name of every picked file (a name that is no photo id)
FileName == 0

\* one round of the loop of uploadPhotosToServer: saveCompressedPhoto, then
\* getPhotoUrl (the id is fresh, so neither cache holds it), then the Photo
\* whose data is the URL
UploadStep(acc, photoId, name, locationId, out, t) ==
    IF out = "saveFail" THEN acc
    ELSE LET saved == [acc EXCEPT !.photos = Put(acc.photos, photoId, 1),
                                  !.metadata = Put(acc.metadata, photoId,
                                                   MetadataRow(name, 1, locationId, 1, t))]
         IN  IF out = "urlFail" THEN saved
             ELSE [saved EXCEPT !.urlCache = Put(acc.urlCache, photoId, acc.nextUrl),
                                !.urlCacheRef = Put(acc.urlCacheRef, photoId, acc.nextUrl),
                                !.liveUrls = acc.liveUrls \cup {acc.nextUrl},
                                !.nextUrl = acc.nextUrl + 1,
                                !.urlOwner = Put(acc.urlOwner, acc.nextUrl, photoId),
                                !.uploaded = Append(acc.uploaded, Photo(photoId, name, BlobUrl))]

RECURSIVE UploadPhotosToServer(_, _, _, _, _, _)
UploadPhotosToServer(acc, n, outs, name, locationId, t) ==
    IF outs = << >> THEN acc
    ELSE UploadPhotosToServer(UploadStep(acc, GenerateId(n), name, locationId, Head(outs), t),
                              n + 1, Tail(outs), name, locationId, t)

\* handleFloorChange(floorId, 'photos', value)
HandleFloorChange(form, value) == [form EXCEPT !.floors[1].photos = value]

\* a check that lets every selection through
OverLimitNever(floorPhotos, n) == FALSE

\* floor.photos.length + filesArray.length > 5
OverLimit(floorPhotos, n) == Len(floorPhotos) + n > MAX_PHOTOS

\* triggerMultipleFileSelect up to the start of the upload: no upload is
\* running for the floor, the files are picked, the limit is checked against
\* the form this render holds
TriggerMultipleFileSelect(outs) ==
    /\ formData # NoForm
    /\ pendingUpload = NoUpload
    /\ Len(formData.floors[1].photos) < MAX_PHOTOS
    /\ OverLimit(formData.floors[1].photos, Len(outs)) \/ nextId + Len(outs) - 1 <= MaxNew
    /\ IF OverLimit(formData.floors[1].photos, Len(outs))
       THEN /\ lastOp' = Op("triggerMultipleFileSelect", formData.id, "rejected", "ok")
            /\ UNCHANGED pendingUpload
       ELSE /\ lastOp' = Op("triggerMultipleFileSelect", formData.id, "uploading", "ok")
            /\ pendingUpload' = [form |-> formData, outs |-> outs]
    /\ UNCHANGED << storeVars, ls, now, psVars, handleVars, migVars, formData, nextId,
                    emergency, lastRecovery, unloadEvent, fieldReportDb >>

\* the rest of triggerMultipleFileSelect: uploadPhotosToServer, then
\* handleFloorChange with the form and the floor the handler saw when the
\* files were picked; nothing is set when no file got through or the form is
\* gone
UploadDone ==
    LET seen == pendingUpload.form
        r == UploadPhotosToServer(UploadStart, nextId, pendingUpload.outs, FileName, seen.id, now)
    IN  /\ pendingUpload # NoUpload
        /\ photos' = r.photos
        /\ metadata' = r.metadata
        /\ urlCache' = r.urlCache
        /\ urlCacheRef' = r.urlCacheRef
        /\ liveUrls' = r.liveUrls
        /\ nextUrl' = r.nextUrl
        /\ urlOwner' = r.urlOwner
        /\ nextId' = nextId + Len(pendingUpload.outs)
        /\ formData' = IF formData = NoForm \/ r.uploaded = << >> THEN formData
                       ELSE HandleFloorChange(seen, seen.floors[1].photos \o r.uploaded)
        /\ pendingUpload' = NoUpload
        /\ lastOp' = Op("uploadPhotosToServer", seen.id,
                        IF r.uploaded = << >> THEN "failed" ELSE "ok", "ok")
        /\ UNCHANGED << locations, ls, now, psVars, calls, lastUrl, lastRevoked, lastGet, migVars,
                        emergency, lastRecovery, unloadEvent, fieldReportDb >>

\* floor.photos.filter(p => p.id !== photoId)
WithoutPhoto(floorPhotos, photoId) == SelectSeq(floorPhotos, LAMBDA p : p.id # photoId)

\* handleRemovePhoto: removePhoto (the hook's URL released, deletePhotoBlob with
\* a database error logged only), then the photo leaves the floor
HandleRemovePhoto(photoId, out) ==
    /\ formData # NoForm
    /\ \E i \in 1..Len(formData.floors[1].photos) : formData.floors[1].photos[i].id = photoId
    /\ liveUrls' = liveUrls \ {CacheGet(urlCacheRef, photoId)}
    /\ urlCacheRef' = Del(urlCacheRef, photoId)
    /\ IF out = "ok"
       THEN /\ photos' = Del(photos, photoId)
            /\ metadata' = Del(metadata, photoId)
       ELSE UNCHANGED << photos, metadata >>
    /\ formData' = HandleFloorChange(formData, WithoutPhoto(formData.floors[1].photos, photoId))
    /\ UNCHANGED << locations, ls, now, lastOp, psVars, urlCache, nextUrl, urlOwner, calls, lastUrl, lastRevoked,
                    lastGet, migVars, nextId, emergency, lastRecovery, pendingUpload, unloadEvent, fieldReportDb >>

\* handleSubmit: onSave(formData) is Index.handleSaveLocation, which awaits
\* saveLocation and then shows the list; the form unmounts and its cleanup
\* revokes every URL
HandleSubmit(out) ==
    /\ formData # NoForm
    /\ lastOp' = Op("handleSubmit", formData.id, out, out)
    /\ IF out = "ok"
       THEN /\ locations' = SaveLocationPut(locations, formData, now)
            /\ liveUrls' = liveUrls \ (Range(urlCacheRef) \cup Range(urlCache))
            /\ urlCacheRef' = Empty
            /\ urlCache' = Empty
            /\ formData' = NoForm
       ELSE UNCHANGED << locations, liveUrls, urlCacheRef, urlCache, formData >>
    /\ UNCHANGED << photos, metadata, ls, now, psVars, nextUrl, urlOwner, calls, lastUrl, lastRevoked,
                    lastGet, migVars, nextId, emergency, lastRecovery, pendingUpload, unloadEvent, fieldReportDb >>

\* handleBeforeUnload of this form: saveLocation(formData) when the form has an
\* id and something to save
HandleBeforeUnloadForm(out) ==
    /\ formData # NoForm
    /\ HandleBeforeUnloadV2(formData, out)

\* the form mounts: with the stored record (edit) or with a new one; a
\* behaviour follows one form from its mount to its submit
OpenForm(id) ==
    /\ formData = NoForm
    /\ lastOp = NoOp
    /\ formData' = IF id \in DOMAIN locations THEN locations[id]
                   ELSE Location(id, 1, now, NoLastSaved, << Floor(1, << >>) >>)
    /\ UNCHANGED << storeVars, ls, now, lastOp, psVars, handleVars, migVars, nextId, emergency, lastRecovery, pendingUpload, unloadEvent, fieldReportDb >>

\* a photo stored by an earlier page load: its blob under its id, no payload
\* left in the record
StoredPhotos(k) == [i \in 1..k |-> Photo(i, FileName, "none")]

\* how deletePhotoBlob ends inside handleRemovePhoto (RemovePhoto of the
\* handle cache covers the delete that fails)
RemoveOutcomes == {"ok"}

\* how saveLocation ends for the form
SaveOutcomes == {"ok", "StorageUnavailable"}

\* before the form mounts: record 1 is stored with MaxStored photos on its
\* floor, no other record is
InitForm ==
    /\ InitRest
    /\ ls = Empty
    /\ locations = Put(Empty, 1, Location(1, 1, 1, 1, << Floor(1, StoredPhotos(MaxStored)) >>))
    /\ photos = [i \in 1..MaxStored |-> 1]
    /\ metadata = [i \in 1..MaxStored |-> MetadataRow(FileName, 1, 1, 1, 1)]

NextForm ==
    \/ \E id \in RecIds : OpenForm(id)
    \/ \E outs \in UploadRuns : TriggerMultipleFileSelect(outs)
    \/ UploadDone
    \/ \E p \in 1..(MaxStored + MaxNew), out \in RemoveOutcomes : HandleRemovePhoto(p, out)
    \/ \E out \in SaveOutcomes : HandleSubmit(out)
    \/ \E out \in SaveOutcomes : HandleBeforeUnloadForm(out)

SpecForm == InitForm /\ [][NextForm]_vars

----------------------------------------------------------------------------
(* C11: no record persisted in the 'locations' store or in the legacy list
   holds a blob URL in a photo's data field. *)

HoldsBlobUrl(location) ==
    \E i \in 1..Len(LocationPhotos(location)) : LocationPhotos(location)[i].photo.data = BlobUrl

C11_NoHandlePersisted ==
    /\ \A id \in DOMAIN locations : ~HoldsBlobUrl(locations[id])
    /\ \A i \in 1..Len(LocalList(ls)) : ~HoldsBlobUrl(LocalList(ls)[i])

----------------------------------------------------------------------------
(* Recovery: utils/storage.ts attemptDataRecovery, and the emergency save of
   the service worker (public/sw.js) *)

\* one round of the merge loop: a legacy record joins the list, or replaces
\* the copy that is there when its lastSaved is greater
MergeStepKeepsFirst(recoveredData, localLocation) ==
    IF FindIndex(recoveredData, localLocation.id) = 0
    THEN Append(recoveredData, localLocation)
    ELSE recoveredData

MergeStep(recoveredData, localLocation) ==
    IF FindIndex(recoveredData, localLocation.id) = 0
    THEN Append(recoveredData, localLocation)
    ELSE IF /\ localLocation.lastSaved # NoLastSaved
            /\ localLocation.lastSaved > recoveredData[FindIndex(recoveredData, localLocation.id)].lastSaved
         THEN [recoveredData EXCEPT ![FindIndex(recoveredData, localLocation.id)] = localLocation]
         ELSE recoveredData

RECURSIVE MergeLocal(_, _)
MergeLocal(recoveredData, localLocations) ==
    IF localLocations = << >> THEN recoveredData
    ELSE MergeLocal(MergeStep(recoveredData, Head(localLocations)), Tail(localLocations))

\* localStorage.getItem(STORAGE_KEY) parsed inside its try: [] when it throws
RecoveryLocal(lsv, localOk) == IF localOk THEN LocalList(lsv) ELSE << >>

\* a recovery that skips the final sort
RecoveredListUnsorted(recoveredData) == recoveredData

\* the list after the final sort
RecoveredList(recoveredData) == SortByLastSaved(recoveredData)

\* attemptDataRecovery: the database, then the legacy list; step 3 opens
\* FieldReportDB and reads nothing
AttemptDataRecovery(readOk, localOk) ==
    /\ lastRecovery' =
          [stored |-> GetAll(locations),
           local |-> LocalList(ls),
           emergency |-> DOMAIN emergency,
           idbRead |-> readOk,
           localRead |-> localOk,
           result |-> RecoveredList(MergeLocal(LoadFromIndexedDB(locations, readOk),
                                               RecoveryLocal(ls, localOk)))]
    /\ lastOp' = Op("attemptDataRecovery", 0, "ok", "ok")
    /\ UNCHANGED << storeVars, ls, now, psVars, handleVars, migVars, formData, nextId, emergency, pendingUpload, unloadEvent, fieldReportDb >>

\* the copies a tier may hold: the record's creation time is its id, tier
\* copies are told apart by their body
TierCopy(id, body, saved) == Location(id, body, id, saved, << >>)

\* the FieldReportDB 'locations' stores the recovery may find
StoredTiers ==
    UNION { { [id \in S |-> TierCopy(id, 1, saved[id])] : saved \in [S -> 0..MaxTime] } :
            S \in SUBSET RecIds }

\* the legacy lists the recovery may find: one copy per id, in any order
LocalTiers ==
    UNION { { l \in [1..Cardinality(S) -> {TierCopy(id, 2, t) : id \in S, t \in 0..MaxTime}] :
                  Ids(l) = S } :
            S \in SUBSET RecIds }

InitRecover ==
    /\ InitRest
    /\ photos = Empty
    /\ metadata = Empty
    /\ locations \in StoredTiers
    /\ \E l \in LocalTiers : ls = IF l = << >> THEN Empty ELSE Put(Empty, STORAGE_KEY, l)

NextRecover == \E readOk \in BOOLEAN, localOk \in BOOLEAN : AttemptDataRecovery(readOk, localOk)

SpecRecover == InitRecover /\ [][NextRecover]_vars

\* the copy of id in a list
CopyOf(list, id) == list[FindIndex(list, id)]

(* C12: when attemptDataRecovery read both tiers and a record id has a copy
   in the database and a copy in the legacy list, the returned list holds the
   copy whose lastSaved is greater, a missing lastSaved counting as less than
   any lastSaved. *)
C12_GreaterLastSavedWins ==
    (lastOp.op = "attemptDataRecovery" /\ lastRecovery.idbRead /\ lastRecovery.localRead) =>
        \A id \in Ids(lastRecovery.stored) \cap Ids(lastRecovery.local) :
            LET a == CopyOf(lastRecovery.stored, id)
                b == CopyOf(lastRecovery.local, id)
            IN  /\ id \in Ids(lastRecovery.result)
                /\ a.lastSaved > b.lastSaved => CopyOf(lastRecovery.result, id) = a
                /\ b.lastSaved > a.lastSaved => CopyOf(lastRecovery.result, id) = b

\* the legacy copy won against a database copy that has a lastSaved, and in
\* the same recovery a database copy won against a legacy copy
C12_Witness ==
    /\ lastOp.op = "attemptDataRecovery" /\ lastRecovery.idbRead /\ lastRecovery.localRead
    /\ \E id \in Ids(lastRecovery.stored) \cap Ids(lastRecovery.local) :
          /\ CopyOf(lastRecovery.stored, id).lastSaved # NoLastSaved
          /\ CopyOf(lastRecovery.local, id).lastSaved > CopyOf(lastRecovery.stored, id).lastSaved
          /\ CopyOf(lastRecovery.result, id) = CopyOf(lastRecovery.local, id)
    /\ \E id \in Ids(lastRecovery.stored) \cap Ids(lastRecovery.local) :
          /\ CopyOf(lastRecovery.local, id).lastSaved = NoLastSaved
          /\ CopyOf(lastRecovery.stored, id).lastSaved # NoLastSaved
          /\ CopyOf(lastRecovery.result, id) = CopyOf(lastRecovery.stored, id)

(* C14: when attemptDataRecovery read both tiers, the list it returns holds
   every record id of the database and of the legacy list exactly once, and is
   ordered by lastSaved descending, the creation time standing in for a
   missing lastSaved. *)
C14_MergedOnceNewestFirst ==
    (lastOp.op = "attemptDataRecovery" /\ lastRecovery.idbRead /\ lastRecovery.localRead) =>
        /\ Ids(lastRecovery.result) = Ids(lastRecovery.stored) \cup Ids(lastRecovery.local)
        /\ Len(lastRecovery.result) = Cardinality(Ids(lastRecovery.result))
        /\ \A i, j \in 1..Len(lastRecovery.result) :
              i < j => SortKey(lastRecovery.result[i]) >= SortKey(lastRecovery.result[j])

\* a legacy-only record without lastSaved is returned ahead of a database-only
\* record with an older lastSaved
C14_Witness ==
    /\ lastOp.op = "attemptDataRecovery" /\ lastRecovery.idbRead /\ lastRecovery.localRead
    /\ Len(lastRecovery.result) = 2
    /\ lastRecovery.result[1].lastSaved = NoLastSaved
    /\ lastRecovery.result[1].id \notin Ids(lastRecovery.stored)
    /\ lastRecovery.result[2].lastSaved # NoLastSaved
    /\ lastRecovery.result[2].id \notin Ids(lastRecovery.local)

----------------------------------------------------------------------------
(* The service worker's EMERGENCY_SAVE message (public/sw.js) *)

\* how the handler's transactions end: both complete, the EmergencyBackupDB
\* open or transaction fails, the FieldReportDB open or transaction fails
EmergencyOutcomes == {"ok", "emergencyFail", "mainFail"}

\* store.put(location) for every record of the message
RECURSIVE PutEach(_, _)
PutEach(store, data) ==
    IF data = << >> THEN store
    ELSE PutEach(Put(store, Head(data).id, Head(data)), Tail(data))

\* saveToEmergencyDB(event.data.locations): the records go into
\* 'emergency_locations'; when that transaction completes they are put into
\* the 'locations' store of FieldReportDB as well (the fields
\* emergency_timestamp, backup_source and backup_timestamp are left out)
EmergencySave(data, out) ==
    /\ Len(data) > 0
    /\ emergency = Empty
    /\ emergency' = IF out # "emergencyFail" THEN PutEach(emergency, data) ELSE emergency
    /\ locations' = IF out = "ok" THEN PutEach(locations, data) ELSE locations
    /\ lastOp' = Op("emergencySave", Head(data).id, "ok", out)
    /\ UNCHANGED << photos, metadata, ls, now, psVars, handleVars, migVars, formData, nextId,
                    lastRecovery, pendingUpload, unloadEvent, fieldReportDb >>

\* the messages: the one record the page holds
EmergencyMessages == { << TierCopy(id, 2, saved) >> : id \in RecIds, saved \in 0..MaxTime }

NextEmergency ==
    \/ \E data \in EmergencyMessages, out \in EmergencyOutcomes : EmergencySave(data, out)
    \/ \E readOk \in BOOLEAN, localOk \in BOOLEAN : AttemptDataRecovery(readOk, localOk)

SpecEmergency == InitRecover /\ [][NextEmergency]_vars

(* C13: a record id that only the emergency store holds when
   attemptDataRecovery runs is in the list attemptDataRecovery returns. *)
C13_EmergencyConsulted ==
    lastOp.op = "attemptDataRecovery" =>
        \A id \in lastRecovery.emergency \ (Ids(lastRecovery.stored) \cup Ids(lastRecovery.local)) :
            id \in Ids(lastRecovery.result)

(* C15: handling an EMERGENCY_SAVE message leaves the 'locations' store of
   FieldReportDB as it was: no record is created, replaced or deleted. *)
C15_MainStoreUntouched ==
    [][ lastOp'.op = "emergencySave" => locations' = locations ]_vars

----------------------------------------------------------------------------
(* C16: when the database cannot be opened, loadAllLocations fails to its
   caller (Index.initializeData) instead of returning normally. *)
C16_UnreachableReadFails ==
    (lastOp.op = "loadAllLocations" /\ lastOp.primary = "StorageUnavailable") =>
        lastOp.out # "ok"

----------------------------------------------------------------------------
(* C17: in every state of the FieldReportDB, a photo id has a blob in 'photos'
   exactly when it has a row in 'metadata': savePhotoBlob, deletePhotoBlob and
   deleteLocation write both stores in one transaction, a failed one writes
   neither. *)
C17_BlobIffMetadata == DOMAIN photos = DOMAIN metadata

\* a savePhotoBlob that failed left its id with neither, next to a photo that
\* has both
C17_Witness ==
    /\ lastOp.op = "savePhotoBlob" /\ lastOp.out # "ok"
    /\ lastOp.key \notin DOMAIN photos
    /\ lastOp.key \notin DOMAIN metadata
    /\ \E p \in DOMAIN photos : p \in DOMAIN metadata

----------------------------------------------------------------------------
(* C18: a saveLocationSafely whose updated list serializes to the ceiling or
   more leaves localStorage exactly as it was, and returns normally. *)
C18_OversizedLeavesLegacy ==
    [][ \A id \in RecIds, body \in Bodies, env \in LoadEnvs, putOut \in Outcomes, lsOut \in LsOutcomes :
          ( /\ SaveLocationSafely(StampedForm(id, body), env, putOut, lsOut)
            /\ SerializedSize(Upsert(LoadLocations(ls, locations, env), StampedForm(id, body)))
                  >= LS_CEILING )
          => (ls' = ls /\ lastOp'.out = "ok") ]_vars

----------------------------------------------------------------------------
(* C19: no floor of the form or of a stored record ever holds more than
   MAX_PHOTOS photos, and a selection that would take the floor over the limit
   is rejected: the form, the stored blobs and metadata rows, the stored
   records and the pending upload stay as they were. *)

FloorsWithinLimit(location) ==
    \A i \in 1..Len(location.floors) : Len(location.floors[i].photos) <= MAX_PHOTOS

C19_PhotoLimit ==
    /\ [](/\ FloorsWithinLimit(formData)
          /\ \A id \in DOMAIN locations : FloorsWithinLimit(locations[id]))
    /\ [][ \A outs \in UploadRuns :
             ( /\ TriggerMultipleFileSelect(outs)
               /\ OverLimit(formData.floors[1].photos, Len(outs)) )
             => UNCHANGED << formData, photos, metadata, locations, pendingUpload >> ]_vars

\* a selection of two files was rejected on a floor one photo short of the
\* limit, after an upload had filled the floor up to there
C19_Witness ==
    /\ lastOp.op = "triggerMultipleFileSelect" /\ lastOp.out = "rejected"
    /\ formData # NoForm
    /\ Len(formData.floors[1].photos) = MAX_PHOTOS - 1
    /\ \E i \in 1..Len(formData.floors[1].photos) : formData.floors[1].photos[i].data = BlobUrl

----------------------------------------------------------------------------
(* SpecCompress: compressImage and the saveCompressedPhoto that calls it
   (src/unnamed/part_004, usePhotoManagerV2.ts) *)

\* the blob of a canvas.toDataURL result
CanvasBlob == 1

\* what a picked file is: its bytes (told apart from CanvasBlob), its size
\* class, and whether its bytes load as an Image from a blob URL (primary),
\* are read by the FileReader (readable), and load as an Image from the data
\* URL the reader produced (fallback)
FileBytes == {2, 3}
FileSizes == {"empty", "tiny", "normal", "huge"}
Files == [bytes : FileBytes, size : FileSizes, primary : BOOLEAN, readable : BOOLEAN,
          fallback : BOOLEAN]

\* how one try of saveCompressedPhoto goes in the browser: the canvas fails
\* (no 2d context, or drawing or encoding throws), or the canvas works and
\* savePhotoBlob fails, or both work
Attempts == {"ok", "canvasFail", "putFail"}
AttemptRuns == [1..(MAX_RETRY + 1) -> Attempts]

Rejected == [kind |-> "rejected", blob |-> NoBlob, short |-> TRUE]
Resolved(kind, blob, short) == [kind |-> kind, blob |-> blob, short |-> short]

\* compressWithCanvas: the re-encoded image, or a rejection
CompressWithCanvas(file, attempt) ==
    IF attempt # "canvasFail" THEN Resolved("compressed", CanvasBlob, FALSE) ELSE Rejected

\* reader.readAsDataURL(file): the data URL of the file's own bytes; it has
\* fewer than 100 characters when the file is tiny
OriginalDataUrl(file) == Resolved("original", file.bytes, file.size = "tiny")

\* fallbackCompression: reader.onerror rejects; img.onload draws on a canvas;
\* img.onerror resolves with e.target.result, the reader's data URL
FallbackCompression(file, attempt) ==
    IF ~file.readable THEN Rejected
    ELSE IF file.fallback
         THEN CompressWithCanvas(file, attempt)
         ELSE OriginalDataUrl(file)

\* compressImage: img.onload -> compressWithCanvas, img.onerror -> fallbackCompression
\* (the HEIF branch and the ordinary branch have the same shape)
CompressImage(file, attempt) ==
    IF file.primary THEN CompressWithCanvas(file, attempt) ELSE FallbackCompression(file, attempt)

\* one try of saveCompressedPhoto after the file checks: "saved" with the blob
\* given to savePhotoBlob, or "retry" (a throw caught by either catch)
TryOnce(file, attempt) ==
    LET r == CompressImage(file, attempt)
    IN  IF r.kind = "rejected" \/ r.short THEN [out |-> "retry", blob |-> NoBlob]
        ELSE IF attempt = "ok" THEN [out |-> "saved", blob |-> r.blob]
        ELSE [out |-> "retry", blob |-> NoBlob]

\* saveCompressedPhoto(file, photoId, locationId, floorId, retryCount): tries
\* again while retryCount < MAX_RETRY, then returns false
RECURSIVE SaveCompressedPhotoRun(_, _, _)
SaveCompressedPhotoRun(file, attempts, retryCount) ==
    IF file.size \in {"empty", "huge"} THEN [out |-> "false", blob |-> NoBlob]
    ELSE LET t == TryOnce(file, attempts[retryCount + 1])
         IN  IF t.out = "saved" THEN [out |-> "ok", blob |-> t.blob]
             ELSE IF retryCount < MAX_RETRY
                  THEN SaveCompressedPhotoRun(file, attempts, retryCount + 1)
                  ELSE [out |-> "false", blob |-> NoBlob]

\* the whole call; processingCount is raised on entry and lowered in finally,
\* so it ends where it began
SaveCompressedPhoto(file, photoId, locationId, attempts) ==
    LET run == SaveCompressedPhotoRun(file, attempts, 0)
    IN  /\ lastOp' = Op("saveCompressedPhoto", photoId, run.out,
                        IF run.out = "ok" THEN "ok" ELSE "StorageUnavailable")
        /\ IF run.out = "ok"
           THEN /\ photos' = Put(photos, photoId, run.blob)
                /\ metadata' = Put(metadata, photoId,
                                   MetadataRow(FileName, run.blob, locationId, 1, now))
           ELSE UNCHANGED << photos, metadata >>
        /\ UNCHANGED << locations, ls, now, psVars, handleVars, migVars, appVars >>

InitCompress == InitCommon /\ ls = Empty

NextCompress ==
    \/ \E file \in Files, p \in PhotoIds, id \in RecIds, attempts \in AttemptRuns :
          SaveCompressedPhoto(file, p, id, attempts)
    \/ \E p \in PhotoIds : DeletePhotoBlob(p, "ok")

SpecCompress == InitCompress /\ [][NextCompress]_vars

\* every decode path fails: the bytes load neither from the blob URL nor
\* through the fallback reader
AllDecodeFails(file) == ~file.primary /\ (~file.readable \/ ~file.fallback)

(* C20: when every decode path fails for a file (the primary decode and the
   fallback reader), saveCompressedPhoto returns false and stores no blob and
   no metadata row for it; and compressImage never resolves to the file's
   original, unprocessed bytes. *)
C20_UndecodableNeverSaved ==
    [][ \A file \in Files, p \in PhotoIds, id \in RecIds, attempts \in AttemptRuns :
          SaveCompressedPhoto(file, p, id, attempts) =>
            /\ \A i \in DOMAIN attempts : CompressImage(file, attempts[i]).kind # "original"
            /\ AllDecodeFails(file) =>
                 (lastOp'.out = "false" /\ photos' = photos /\ metadata' = metadata) ]_vars

----------------------------------------------------------------------------
\* the object URLs made from the blob of photoId that are not revoked
LiveHandlesOf(photoId) == {u \in liveUrls : urlOwner[u] = photoId}

(* C21: at most one live object URL exists per photo id at any time, also
   when two getPhotoUrl calls for the same id overlap (the second starts while
   the first still awaits loadPhotoBlob): no second URL is created and left
   unrevoked. *)
C21_OneLiveHandlePerPhoto ==
    \A p \in PhotoIds : Cardinality(LiveHandlesOf(p)) <= 1

----------------------------------------------------------------------------
(* SpecUnload: the beforeunload listener of LocationForm (part_009 lines
   77-102) step by step. The listener is an async function: the platform gets
   control back at its first await that waits for a task, and reads the
   event's canceled flag when the dispatch ends. *)

\* how the IndexedDB open of saveLocation fails: "openThrows" is
\* indexedDB.open throwing inside openDB, which rejects in the microtasks of
\* the dispatch; the others arrive with a later error or abort event
SyncOutcomes == {"pending", "openThrows"}

\* the form page mounts with a record that has something to save
MountForm(id, body) ==
    /\ formData = NoForm
    /\ unloadEvent.phase \in {"none", "left"}
    /\ formData' = FormLocation(id, body)
    /\ unloadEvent' = NoEvent
    /\ UNCHANGED << storeVars, ls, now, lastOp, psVars, handleVars, migVars, nextId, emergency,
                    lastRecovery, pendingUpload, fieldReportDb >>

\* the platform dispatches beforeunload: handleBeforeUnload runs up to
\* 'await saveLocation(formData)', where saveLocation waits for initDB(); the
\* microtasks run, then the dispatch ends and the platform reads the event
BeforeUnloadDispatch(sync) ==
    /\ formData # NoForm
    /\ unloadEvent.phase = "none"
    /\ IF sync = "openThrows"
       THEN /\ unloadEvent' = [phase |-> "settled", out |-> "StorageUnavailable",
                               canceled |-> TRUE, prevented |-> TRUE]
            /\ lastOp' = Op("handleBeforeUnloadV2", formData.id, "confirm", "StorageUnavailable")
       ELSE /\ unloadEvent' = [phase |-> "pending", out |-> "ok",
                               canceled |-> FALSE, prevented |-> FALSE]
            /\ UNCHANGED lastOp
    /\ UNCHANGED << storeVars, ls, now, psVars, handleVars, migVars, formData, nextId, emergency,
                    lastRecovery, pendingUpload, fieldReportDb >>

\* the page is still there when the save settles: the rest of saveLocation,
\* then the rest of handleBeforeUnload; event.preventDefault() after the
\* dispatch leaves the canceled flag as the platform read it
BeforeUnloadSettle(out) ==
    /\ formData # NoForm
    /\ unloadEvent.phase = "pending"
    /\ locations' = IF out = "ok" THEN SaveLocationPut(locations, formData, now) ELSE locations
    /\ unloadEvent' = [phase |-> "settled", out |-> out,
                       canceled |-> unloadEvent.canceled, prevented |-> out # "ok"]
    /\ lastOp' = Op("handleBeforeUnloadV2", formData.id, IF out = "ok" THEN "ok" ELSE "confirm", out)
    /\ UNCHANGED << photos, metadata, ls, now, psVars, handleVars, migVars, formData, nextId,
                    emergency, lastRecovery, pendingUpload, fieldReportDb >>

\* the platform unloads the page: at once when the event was not canceled,
\* after the user confirmed when it was; a save still pending is dropped
Teardown ==
    /\ unloadEvent.phase \in {"pending", "settled"}
    /\ unloadEvent' = [unloadEvent EXCEPT !.phase = "left"]
    /\ formData' = NoForm
    /\ UNCHANGED << storeVars, ls, now, lastOp, psVars, handleVars, migVars, nextId, emergency,
                    lastRecovery, pendingUpload, fieldReportDb >>

\* the page stays: the user declined to leave, or the navigation did not
\* replace the document
StayOnPage ==
    /\ unloadEvent.phase = "settled"
    /\ unloadEvent' = NoEvent
    /\ UNCHANGED << storeVars, ls, now, lastOp, psVars, handleVars, migVars, formData, nextId,
                    emergency, lastRecovery, pendingUpload, fieldReportDb >>

InitUnload == InitCommon /\ ls = Empty

NextUnload ==
    \/ \E id \in RecIds, body \in Bodies : MountForm(id, body)
    \/ \E sync \in SyncOutcomes : BeforeUnloadDispatch(sync)
    \/ \E out \in Outcomes : BeforeUnloadSettle(out)
    \/ Teardown
    \/ StayOnPage
    \/ Tick

SpecUnload == InitUnload /\ [][NextUnload]_vars

(* C22: on beforeunload the save is attempted, and when that save fails the
   leave confirmation has been requested by the time the handler gives
   control back to the platform: whenever the handler called
   event.preventDefault() for a failed save, the event was canceled when its
   dispatch ended. *)
C22_ConfirmBeforeTeardown ==
    unloadEvent.prevented => unloadEvent.canceled

----------------------------------------------------------------------------
(* SpecOpen: the openers of the IndexedDB database 'FieldReportDB' *)

\* DB_VERSION of each opener: storage.ts (part_003), storage-indexeddb.ts, and
\* the service worker's indexedDB.open('FieldReportDB', 1)
Openers == {"storage", "storage-indexeddb", "sw"}
DbVersion(opener) == IF opener = "storage-indexeddb" THEN 2 ELSE 1

AllStores == {"locations", "photos", "metadata", "settings"}

\* what the opener's upgrade callback creates; the service worker sets none
UpgradeStores(opener) ==
    IF opener = "storage" THEN {"locations"}
    ELSE IF opener = "storage-indexeddb" THEN AllStores
    ELSE {}

\* indexedDB.open(name, version) as the platform runs it: a version below the
\* database's fails with VersionError; a version above it upgrades, once no
\* other connection is open (no opener closes its connection on
\* 'versionchange', so the request stays blocked while one is); the same
\* version opens the database as it is
OpenResult(db, opener) ==
    IF DbVersion(opener) < db.version THEN "VersionError"
    ELSE IF DbVersion(opener) > db.version /\ db.conns # {} THEN "blocked"
    ELSE "ok"

InitDB(opener) ==
    LET out == OpenResult(fieldReportDb, opener)
    IN  /\ lastOp' = Op("initDB", opener, out, out)
        /\ fieldReportDb' =
              IF out # "ok" THEN fieldReportDb
              ELSE [version |-> DbVersion(opener),
                    stores |-> IF DbVersion(opener) > fieldReportDb.version
                               THEN fieldReportDb.stores \cup UpgradeStores(opener)
                               ELSE fieldReportDb.stores,
                    conns |-> fieldReportDb.conns \cup {opener}]
        /\ UNCHANGED << storeVars, ls, now, psVars, handleVars, migVars, formData, nextId,
                        emergency, lastRecovery, pendingUpload, unloadEvent >>

\* the page is closed or the worker stopped: its connections close
CloseConnections(who) ==
    /\ who \subseteq fieldReportDb.conns
    /\ who # {}
    /\ fieldReportDb' = [fieldReportDb EXCEPT !.conns = @ \ who]
    /\ UNCHANGED << storeVars, ls, now, lastOp, psVars, handleVars, migVars, formData, nextId,
                    emergency, lastRecovery, pendingUpload, unloadEvent >>

\* a record put through a connection an opener holds: db.transaction throws
\* NotFoundError when the 'locations' store was never created
PutThroughConnection(opener, id, body) ==
    /\ opener \in fieldReportDb.conns
    /\ IF "locations" \in fieldReportDb.stores
       THEN SaveLocation(FormLocation(id, body), "ok")
       ELSE /\ lastOp' = Op("saveLocation", id, "NotFoundError", "NotFoundError")
            /\ UNCHANGED << storeVars, ls, now, psVars, handleVars, migVars, appVars >>

InitOpen == InitCommon /\ ls = Empty

NextOpen ==
    \/ \E opener \in Openers : InitDB(opener)
    \/ \E who \in SUBSET Openers : CloseConnections(who)
    \/ \E opener \in Openers, id \in RecIds, body \in Bodies : PutThroughConnection(opener, id, body)
    \/ Tick

SpecOpen == InitOpen /\ [][NextOpen]_vars

(* C23: opening FieldReportDB is idempotent and safe to race: after any
   earlier or overlapping opens by any of its openers, in any order, an open
   succeeds and the locations, photos, metadata and settings stores all
   exist. *)
C23_OpenIdempotent ==
    lastOp.op = "initDB" => (lastOp.out = "ok" /\ AllStores \subseteq fieldReportDb.stores)

----------------------------------------------------------------------------
(* The arguments of compressImage in each try of saveCompressedPhoto
   (usePhotoManagerV2.ts lines 51, 78-99); quality is in hundredths *)

DEFAULT_MAX_WIDTH == 1200
DEFAULT_QUALITY == 70

\* const smallerMaxWidth = 800 - (retryCount * 200), const lowerQuality =
\* 0.6 - (retryCount * 0.1): computed in the storage-error branch
SmallerMaxWidth(retryCount) == 800 - (retryCount * 200)
LowerQuality(retryCount) == 60 - (retryCount * 10)

\* the call that retries: saveCompressedPhoto(file, photoId, locationId,
\* floorId, retryCount + 1); neither computed value is among its arguments
RetryCall(retryCount) == [retryCount |-> retryCount + 1]

\* compressImage(file): the try with this retryCount compresses with the
\* defaults of compressImage
CompressArgs(retryCount) == [maxWidth |-> DEFAULT_MAX_WIDTH, quality |-> DEFAULT_QUALITY]

\* try number retryCount + 1 of the run happens: every try before it threw
Tried(file, attempts, retryCount) ==
    /\ file.size \notin {"empty", "huge"}
    /\ \A j \in 1..retryCount : TryOnce(file, attempts[j]).out = "retry"

(* C24: when saveCompressedPhoto retries after savePhotoBlob failed, the retry
   compresses with a smaller maximum width and a lower quality than the try
   before it. *)
C24_RetryCompressesSmaller ==
    [][ \A file \in Files, p \in PhotoIds, id \in RecIds, attempts \in AttemptRuns :
          SaveCompressedPhoto(file, p, id, attempts) =>
            \A k \in 1..MAX_RETRY :
               (Tried(file, attempts, k) /\ attempts[k] = "putFail"
                  /\ CompressImage(file, attempts[k]).kind # "rejected") =>
                 /\ CompressArgs(RetryCall(k - 1).retryCount).maxWidth < CompressArgs(k - 1).maxWidth
                 /\ CompressArgs(RetryCall(k - 1).retryCount).quality < CompressArgs(k - 1).quality ]_vars

----------------------------------------------------------------------------
(* C25: a record that is in the 'locations' store (it was saved and no user
   action deleted it) is never removed by a later save, teardown flush or
   quota-handling step: after every such step it is still in the store and
   still in the list loadLocations returns. *)
C25_SavedRecordKept ==
    [][ \A id \in DOMAIN locations :
          /\ id \in DOMAIN locations'
          /\ id \in Ids(LoadLocations(ls', locations', "ok")) ]_vars

----------------------------------------------------------------------------
\* the entries of a list that carry the id
EntriesOf(list, id) == {list[i] : i \in {j \in 1..Len(list) : list[j].id = id}}

(* C26: read-your-writes: after saveLocationSafely(r) returned normally, the
   next loadLocations returns a list whose entry for r's id is exactly the
   record that was saved, whatever the size of the list and whatever
   localStorage holds. *)
C26_ReadYourWrites ==
    [][ \A id \in RecIds, body \in Bodies, env \in LoadEnvs, putOut \in Outcomes, lsOut \in LsOutcomes :
          (SaveLocationSafely(StampedForm(id, body), env, putOut, lsOut) /\ lastOp'.out = "ok") =>
             EntriesOf(LoadLocations(ls', locations', "ok"), id) = {StampedForm(id, body)} ]_vars

----------------------------------------------------------------------------
(* SpecRemigrate: Index.initializeData of part_010 over several page loads.
   Its migration block runs whenever localStorage holds
   'fieldReportLocations', which migrateFromLocalStorage never removes;
   between the loads the form saves records with saveLocation. *)

\* the migration block of initializeData in one more page load
InitializeDataEachLoad(failP, failR) ==
    /\ session < MaxSessions
    /\ session' = session + 1
    /\ HasLocalData(ls)
    /\ failP \subseteq ScannedIds(LocalList(ls))
    /\ failR \subseteq Ids(LocalList(ls))
    /\ EngineA(failP, failR)
    /\ lastOp' = Op("migrateFromLocalStorage", 0, "ok", "ok")
    /\ UNCHANGED << psVars, ls, now, handleVars, appVars >>
    /\ UNCHANGED << dbUp, migrationStatus, migrationStats, pcB, indexMounted,
                    pendingInit, pendingLoad, forced, flagAtStart >>

\* the form of the loaded page saves a stored record
SaveFromForm(id, body, out) ==
    /\ session > 0
    /\ id \in DOMAIN locations
    /\ SaveLocation([locations[id] EXCEPT !.body = body], out)

InitRemigrate ==
    /\ InitCommon
    /\ \E list \in LegacyLists : ls = LegacyStore(list, "writer")

NextRemigrate ==
    \/ \E failP \in SUBSET PhotoIds, failR \in SUBSET RecIds : InitializeDataEachLoad(failP, failR)
    \/ \E id \in RecIds, body \in Bodies, out \in SaveOutcomes : SaveFromForm(id, body, out)
    \/ Tick

SpecRemigrate == InitRemigrate /\ [][NextRemigrate]_vars

\* a record without its save stamp
Content(location) == [location EXCEPT !.lastSaved = NoLastSaved]

(* C27: a migration run never replaces a record of the 'locations' store by an
   older copy from the legacy list: a stored record whose legacy copy is older
   than it has the same content after the run. *)
C27_NoOlderCopyWins ==
    [][ lastOp'.op = "migrateFromLocalStorage" =>
          \A id \in DOMAIN locations :
             (id \in Ids(LocalList(ls))
                /\ SortKey(CopyOf(LocalList(ls), id)) < SortKey(locations[id])) =>
               (id \in DOMAIN locations' /\ Content(locations'[id]) = Content(locations[id])) ]_vars

----------------------------------------------------------------------------
(* SpecUploadV1: handlePhotoUploadFromFiles of LocationForm.tsx (the form of
   the localStorage generation): every file is compressed and saved on its
   own with saveLocationSafely *)

\* how one file fares: compressed and saved; or skipped (no image, too big,
\* compressImage rejects); or saved while the put into IndexedDB is rejected
\* (saveLocationSafely still returns normally)
FileOutcomes == {"ok", "skipped", "putFail"}
FileRuns == UNION {[1..n -> FileOutcomes] : n \in 1..MaxFiles}

\* saveLocationSafely as a function of the two tiers
SafeSave(tiers, location, putOut) ==
    [locations |-> SafePut(tiers.locations, location, putOut),
     ls |-> SafeBackup(LoadLocationsBackup(tiers.ls, tiers.locations, "ok"),
                       Upsert(LoadLocations(tiers.ls, tiers.locations, "ok"), location),
                       location, "ok")]

\* the record one round of the loop saves: the formData of the render that
\* started the upload, with the one new photo appended to its floor
UpdatedFormData(form, newPhoto, t) ==
    [HandleFloorChange(form, Append(form.floors[1].photos, newPhoto)) EXCEPT !.lastSaved = t]

\* one round of the loop: acc.form is the React state, acc.seen what the
\* closure of this call holds as formData
FileStep(acc, out, t) ==
    IF out = "skipped" THEN acc
    ELSE LET newPhoto == Photo(GenerateId(acc.n), FileName, "valid")
             updated == UpdatedFormData(acc.seen, newPhoto, t)
             saved == SafeSave([locations |-> acc.locations, ls |-> acc.ls], updated,
                               IF out = "putFail" THEN "QuotaExceeded" ELSE "ok")
         IN  [acc EXCEPT !.locations = saved.locations, !.ls = saved.ls,
                         !.form = updated, !.n = acc.n + 1,
                         !.success = Append(acc.success, newPhoto.id)]

RECURSIVE FileLoop(_, _, _)
FileLoop(acc, outs, t) ==
    IF outs = << >> THEN acc
    ELSE FileLoop(FileStep(acc, Head(outs), t), Tail(outs), t)

\* the ids of the photos that handlePhotoUploadFromFiles counts in successCount
SuccessIds(outs) ==
    FileLoop([locations |-> locations, ls |-> ls, form |-> formData, seen |-> formData,
              n |-> nextId, success |-> << >>], outs, now).success

HandlePhotoUploadFromFiles(outs) ==
    LET r == FileLoop([locations |-> locations, ls |-> ls, form |-> formData, seen |-> formData,
                       n |-> nextId, success |-> << >>], outs, now)
    IN  /\ formData # NoForm
        /\ OverLimit(formData.floors[1].photos, Len(outs)) \/ nextId + Len(outs) - 1 <= MaxNew
        /\ IF OverLimit(formData.floors[1].photos, Len(outs))
           THEN /\ lastOp' = Op("handlePhotoUploadFromFiles", formData.id, "rejected", "ok")
                /\ UNCHANGED << locations, ls, formData, nextId >>
           ELSE /\ locations' = r.locations
                /\ ls' = r.ls
                /\ formData' = r.form
                /\ nextId' = r.n
                /\ lastOp' = Op("handlePhotoUploadFromFiles", formData.id,
                                IF r.success = << >> THEN "failed" ELSE "ok", "ok")
        /\ UNCHANGED << photos, metadata, now, psVars, handleVars, migVars, emergency,
                        lastRecovery, pendingUpload, unloadEvent, fieldReportDb >>

\* the page is closed with the form open: the flush of the form
HandleBeforeUnloadV1(lsOk, out) ==
    /\ formData # NoForm
    /\ HandleBeforeUnload(formData, "ok", lsOk, out)

\* record 1 is stored with MaxStored photos on its floor, record 2 is new
InitUploadV1 == InitForm

NextUploadV1 ==
    \/ \E id \in RecIds : OpenForm(id)
    \/ \E outs \in FileRuns : HandlePhotoUploadFromFiles(outs)
    \/ \E lsOk \in BOOLEAN, out \in SaveOutcomes : HandleBeforeUnloadV1(lsOk, out)
    \/ Tick

SpecUploadV1 == InitUploadV1 /\ [][NextUploadV1]_vars

PhotoIdsOf(location) ==
    {LocationPhotos(location)[i].photo.id : i \in 1..Len(LocationPhotos(location))}

(* C28: after a multi-file upload to one floor finished, every photo of the
   batch that was counted as saved is in that floor's photo list, in the form
   state and in the persisted record; a later photo of the batch never
   overwrites an earlier one. *)
C28_BatchPhotosKept ==
    [][ \A outs \in FileRuns :
          (HandlePhotoUploadFromFiles(outs) /\ lastOp'.out = "ok") =>
             \A i \in 1..Len(SuccessIds(outs)) :
                /\ SuccessIds(outs)[i] \in PhotoIdsOf(formData')
                /\ formData.id \in DOMAIN locations'
                /\ SuccessIds(outs)[i] \in PhotoIdsOf(locations'[formData.id]) ]_vars

----------------------------------------------------------------------------
(* SpecLeave: the form of part_009 is opened on a stored record, photos are
   removed, and the form is left by its save button, by its back button or by
   closing the page *)

\* the back button: onCancel shows the list, the form unmounts and its cleanup
\* revokes every URL; nothing is saved
HandleCancel ==
    /\ formData # NoForm
    /\ lastOp' = Op("onCancel", formData.id, "ok", "ok")
    /\ liveUrls' = liveUrls \ (Range(urlCacheRef) \cup Range(urlCache))
    /\ urlCacheRef' = Empty
    /\ urlCache' = Empty
    /\ formData' = NoForm
    /\ UNCHANGED << storeVars, ls, now, psVars, nextUrl, urlOwner, calls, lastUrl, lastRevoked,
                    lastGet, migVars, nextId, emergency, lastRecovery, pendingUpload,
                    unloadEvent, fieldReportDb >>

NextLeave ==
    \/ \E id \in RecIds : OpenForm(id)
    \/ \E p \in 1..MaxStored, out \in RemoveOutcomes : HandleRemovePhoto(p, out)
    \/ \E out \in SaveOutcomes : HandleSubmit(out)
    \/ \E out \in SaveOutcomes : HandleBeforeUnloadForm(out)
    \/ HandleCancel
    \/ Tick

SpecLeave == InitForm /\ [][NextLeave]_vars

(* C29: every photo id that a record of the 'locations' store references has
   a blob in the 'photos' store once the form is closed: removing a photo in
   the form and leaving the form without saving does not leave the stored
   record referencing a deleted blob. *)
C29_ReferencedBlobsExist ==
    formData = NoForm =>
        \A id \in DOMAIN locations : PhotoIdsOf(locations[id]) \subseteq DOMAIN photos

----------------------------------------------------------------------------
(* C30: after removePhoto(id) released the URL and deleted the blob, neither
   urlCacheRef nor the module urlCache holds a URL for id, and a getPhotoUrl
   call never returns a URL that was already revoked: it returns null or a
   live URL. *)
C30_RemovedHandleForgotten ==
    [][ /\ \A p \in PhotoIds :
             RemovePhoto(p, "ok") =>
                (CacheGet(urlCacheRef', p) = NoUrl /\ CacheGet(urlCache', p) = NoUrl)
        /\ lastGet' # lastGet => (lastGet'.url = NoUrl \/ lastGet'.url \in liveUrls') ]_vars

====
